---- MODULE Spec2Model ----
(***************************************************************************)
(* Model of the image-authentication toolkit: the seven analyzers of       *)
(* foto-forensics/app.py, the decision engine of                           *)
(* foto-forensics/dutch_insurance_rules.py and its audit trail.            *)
(***************************************************************************)
EXTENDS Integers, Sequences, FiniteSets, TLC

(***************************************************************************)
(* IEEE-754 binary64 arithmetic, as Python's float uses it.                *)
(*                                                                         *)
(* Every float the engine computes is a non-negative multiple of 2^-57     *)
(* below 2^9, so a float is modelled exactly as the integer N = x * 2^57,  *)
(* held in three limbs of 22 bits <<l0, l1, l2>> with                      *)
(* N = l0 + l1 * 2^22 + l2 * 2^44.  Each operation computes the exact      *)
(* result and rounds it to 53 significant bits, ties to even.              *)
(***************************************************************************)
Pow2Tab ==
    <<1, 2, 4, 8, 16, 32, 64, 128, 256, 512, 1024, 2048, 4096, 8192, 16384,
      32768, 65536, 131072, 262144, 524288, 1048576, 2097152, 4194304>>

Pow2(k) == Pow2Tab[k + 1]

\* the base of the limbs
Limb == Pow2(22)

MantissaBits == 53

BitLenLimb(x) == CHOOSE k \in 0..22 : x < Pow2(k) /\ (k = 0 \/ x >= Pow2(k - 1))

BitLen(n) ==
    IF n[3] > 0 THEN 44 + BitLenLimb(n[3])
    ELSE IF n[2] > 0 THEN 22 + BitLenLimb(n[2])
    ELSE BitLenLimb(n[1])

\* carry propagation; the top limb takes what is left
Norm(a0, a1, a2) ==
    LET c0 == a0 \div Limb
        b1 == a1 + c0
        c1 == b1 \div Limb
    IN  <<a0 % Limb, b1 % Limb, a2 + c1>>

AddExact(a, b) == Norm(a[1] + b[1], a[2] + b[2], a[3] + b[3])

\* a - b for a >= b
SubExact(a, b) ==
    LET d0 == a[1] - b[1]
        w0 == IF d0 < 0 THEN 1 ELSE 0
        d1 == a[2] - b[2] - w0
        w1 == IF d1 < 0 THEN 1 ELSE 0
    IN  <<d0 + w0 * Limb, d1 + w1 * Limb, a[3] - b[3] - w1>>

MulSmall(a, k) == Norm(a[1] * k, a[2] * k, a[3] * k)

\* -1, 0, 1 as a is below, equal to, above b
Cmp(a, b) ==
    IF a[3] # b[3] THEN (IF a[3] < b[3] THEN -1 ELSE 1)
    ELSE IF a[2] # b[2] THEN (IF a[2] < b[2] THEN -1 ELSE 1)
    ELSE IF a[1] # b[1] THEN (IF a[1] < b[1] THEN -1 ELSE 1)
    ELSE 0

FGe(a, b) == Cmp(a, b) >= 0

FLt(a, b) == Cmp(a, b) < 0

\* round to nearest, ties to even, at 53 significant bits; sticky tells that
\* the exact value lies strictly above n
Round53(n, sticky) ==
    LET len == BitLen(n)
    IN  IF len <= MantissaBits THEN n
        ELSE LET s    == len - MantissaBits
                 low  == n[1] % Pow2(s)
                 half == Pow2(s - 1)
                 odd  == (n[1] \div Pow2(s)) % 2 = 1
                 up   == low > half \/ (low = half /\ (sticky \/ odd))
             IN  IF up THEN Norm(n[1] - low + Pow2(s), n[2], n[3])
                 ELSE <<n[1] - low, n[2], n[3]>>

FZero == <<0, 0, 0>>

FOne == <<0, 0, 8192>>

\* float(k) for an integer 0 <= k < 512
FromInt(k) == <<0, 0, k * 8192>>

\* int(x): truncation toward zero
ToInt(x) == x[3] \div 8192

FAdd(a, b) == Round53(AddExact(a, b), FALSE)

FSub(a, b) == Round53(SubExact(a, b), FALSE)

\* score * weight for an integer score
FMulInt(k, w) == Round53(MulSmall(w, k), FALSE)

BitAt(n, i) == (n[(i \div 22) + 1] \div Pow2(i % 22)) % 2

\* one step of the long division: bit i of the quotient
DivStep(a, b, i, qr) ==
    LET bit == IF i >= 59 THEN BitAt(a, i - 59) ELSE 0
        r2  == Norm(2 * qr[2][1] + bit, 2 * qr[2][2], 2 * qr[2][3])
        q2  == Norm(2 * qr[1][1], 2 * qr[1][2], 2 * qr[1][3])
        one == IF FGe(r2, b) THEN 1 ELSE 0
        r3  == IF one = 1 THEN SubExact(r2, b) ELSE r2
    IN  <<<<q2[1] + one, q2[2], q2[3]>>, r3>>

RECURSIVE DivLoop(_, _, _, _, _)
\* binary long division of a * 2^59 by b: <<quotient, remainder>>
DivLoop(a, b, hi, lo, qr) ==
    IF hi = lo THEN DivStep(a, b, hi, qr)
    ELSE LET mid  == (hi + lo + 1) \div 2
             high == DivLoop(a, b, hi, mid, qr)
         IN  \* the test evaluates the higher bits before the lower ones
             IF high[1][1] + high[2][1] < 0 THEN high
             ELSE DivLoop(a, b, mid - 1, lo, high)

\* a / b for b > 0 (quotients are 0 or at least 2^-5)
FDiv(a, b) ==
    IF b = FOne \/ a = FZero THEN a
    ELSE LET qr == DivLoop(a, b, 124, 0, <<FZero, FZero>>)
             rd == Round53(qr[1], qr[2] # FZero)
         IN  <<(rd[1] \div 4) + (rd[2] % 4) * (Limb \div 4),
               (rd[2] \div 4) + (rd[3] % 4) * (Limb \div 4),
               rd[3] \div 4>>

\* f'{x:.1f}': the decimal value of x to one place, in tenths, rounded to
\* nearest with ties to even on the exact binary value
Format1f(x) ==
    LET t    == MulSmall(x, 10)
        int  == t[3] \div 8192
        frac == <<t[1], t[2], t[3] % 8192>>
        c    == Cmp(frac, <<0, 0, 4096>>)
    IN  IF c > 0 \/ (c = 0 /\ int % 2 = 1) THEN int + 1 ELSE int

(***************************************************************************)
(* Strings that the code inspects are sequences of characters; str.lower   *)
(* and the substring test `a in b` work on them.  Strings that are only    *)
(* carried along are TLA+ strings.                                         *)
(***************************************************************************)
LowerTab ==
    [A |-> "a", B |-> "b", C |-> "c", D |-> "d", E |-> "e", F |-> "f", G |-> "g", H |-> "h", I |-> "i", J |-> "j", K |-> "k", L |-> "l", M |-> "m", N |-> "n", O |-> "o", P |-> "p", Q |-> "q", R |-> "r", S |-> "s", T |-> "t", U |-> "u", V |-> "v", W |-> "w", X |-> "x", Y |-> "y", Z |-> "z"]

LowerChar(c) == IF c \in DOMAIN LowerTab THEN LowerTab[c] ELSE c

\* str.lower()
StrLower(s) == [i \in 1..Len(s) |-> LowerChar(s[i])]

\* sub in s
Contains(sub, s) ==
    \E i \in 1..(Len(s) - Len(sub) + 1) : SubSeq(s, i, i + Len(sub) - 1) = sub

\* d.get(k, default)
Get(d, k, default) == IF k \in DOMAIN d THEN d[k] ELSE default

Min(a, b) == IF a <= b THEN a ELSE b

Max(a, b) == IF a >= b THEN a ELSE b

(***************************************************************************)
(* The decision engine: class DutchInsuranceAuthenticityRules              *)
(***************************************************************************)
CRITICAL_AI_CONFIDENCE_THRESHOLD == 40

MINIMUM_AUTHENTIC_SCORE == 75

SUSPICIOUS_THRESHOLD == 50

\* the float literals 0.35, 0.20, 0.15, 0.10, 0.05 as binary64 values
W035 == <<3355440, 838860, 2867>>

W020 == <<2516584, 1677721, 1638>>

W015 == <<838860, 3355443, 1228>>

W010 == <<3355444, 838860, 819>>

W005 == <<1677722, 2516582, 409>>

ANALYSIS_WEIGHTS_heavy_noise ==
    << [analysis |-> "ai_analysis",          key |-> "ai_score",          weight |-> W035],
       [analysis |-> "metadata_analysis",    key |-> "metadata_score",    weight |-> W020],
       [analysis |-> "compression_analysis", key |-> "compression_score", weight |-> W015],
       [analysis |-> "copy_move_analysis",   key |-> "copy_move_score",   weight |-> W010],
       [analysis |-> "noise_analysis",       key |-> "noise_score",       weight |-> W015],
       [analysis |-> "histogram_analysis",   key |-> "histogram_score",   weight |-> W005],
       [analysis |-> "blockchain_analysis",  key |-> "blockchain_score",  weight |-> W005] >>

\* the dictionary in insertion order, each analysis with the score key that
\* _calculate_weighted_score reads from it
ANALYSIS_WEIGHTS ==
    << [analysis |-> "ai_analysis",          key |-> "ai_score",          weight |-> W035],
       [analysis |-> "metadata_analysis",    key |-> "metadata_score",    weight |-> W020],
       [analysis |-> "compression_analysis", key |-> "compression_score", weight |-> W015],
       [analysis |-> "copy_move_analysis",   key |-> "copy_move_score",   weight |-> W010],
       [analysis |-> "noise_analysis",       key |-> "noise_score",       weight |-> W010],
       [analysis |-> "histogram_analysis",   key |-> "histogram_score",   weight |-> W005],
       [analysis |-> "blockchain_analysis",  key |-> "blockchain_score",  weight |-> W005] >>

EmptyDict == [k \in {} |-> 0]

StrEditingSoftware == <<"e", "d", "i", "t", "i", "n", "g", " ", "s", "o", "f", "t", "w", "a", "r", "e">>

IsCriticalAI_strict(ai_confidence) == ai_confidence > CRITICAL_AI_CONFIDENCE_THRESHOLD

\* the critical rule of _evaluate_ai_content
IsCriticalAI(ai_confidence) == ai_confidence >= CRITICAL_AI_CONFIDENCE_THRESHOLD

IsSuspiciousAI_both(ai_detected, ai_indicators) ==
    ai_detected /\ Len(ai_indicators) >= 2

\* the suspicious rule of _evaluate_ai_content
IsSuspiciousAI(ai_detected, ai_indicators) ==
    ai_detected \/ Len(ai_indicators) >= 2

_evaluate_ai_content(ai_analysis) ==
    LET ai_detected   == Get(ai_analysis, "ai_detected", FALSE)
        ai_confidence == Get(ai_analysis, "ai_confidence", 0)
        ai_indicators == Get(ai_analysis, "ai_indicators", <<>>)
    IN  IF IsCriticalAI(ai_confidence)
        THEN [is_critical |-> TRUE, result |-> "NON_AUTHENTIC",
              reason |-> <<"AI-generated content detected with confidence", ai_confidence>>,
              indicators |-> ai_indicators,
              compliance_note |-> <<"AI-generated images not acceptable for insurance claims per DNB guidelines">>]
        ELSE IF IsSuspiciousAI(ai_detected, ai_indicators)
        THEN [is_critical |-> TRUE, result |-> "SUSPICIOUS",
              reason |-> <<"Multiple AI indicators detected", ai_indicators>>,
              indicators |-> ai_indicators,
              compliance_note |-> <<"Requires human expert review per EU AI Act requirements">>]
        ELSE [is_critical |-> FALSE, result |-> "PASSED",
              reason |-> <<"No significant AI generation indicators">>,
              indicators |-> ai_indicators]

HasEditingSoftware_cased(suspicious_indicators) ==
    \E i \in 1..Len(suspicious_indicators) :
        Contains(StrEditingSoftware, suspicious_indicators[i])

\* any('editing software' in indicator.lower() for indicator in ...)
HasEditingSoftware(suspicious_indicators) ==
    \E i \in 1..Len(suspicious_indicators) :
        Contains(StrEditingSoftware, StrLower(suspicious_indicators[i]))

_evaluate_fraud_indicators_reversed(analysis_results) ==
    LET metadata_analysis    == Get(analysis_results, "metadata_analysis", EmptyDict)
        suspicious_indicators == Get(metadata_analysis, "suspicious_indicators", <<>>)
        copy_move_analysis   == Get(analysis_results, "copy_move_analysis", EmptyDict)
        compression_analysis == Get(analysis_results, "compression_analysis", EmptyDict)
        noise_analysis       == Get(analysis_results, "noise_analysis", EmptyDict)
        flag1 == IF HasEditingSoftware(suspicious_indicators)
                 THEN <<"Professional editing software detected in metadata">> ELSE <<>>
        flag2 == IF Get(copy_move_analysis, "copy_move_detected", FALSE)
                 THEN <<"Copy-move manipulation detected">> ELSE <<>>
        susp1 == IF Get(compression_analysis, "estimated_quality", 100) < 60
                 THEN <<"Low quality compression suggests multiple edits">> ELSE <<>>
        susp2 == IF Len(Get(noise_analysis, "artificial_indicators", <<>>)) >= 2
                 THEN <<"Multiple artificial noise patterns detected">> ELSE <<>>
        critical_flags   == flag2 \o flag1
        suspicious_flags == susp1 \o susp2
    IN  IF critical_flags # <<>>
        THEN [is_critical |-> TRUE, result |-> "FRAUD_INDICATORS",
              critical_flags |-> critical_flags, suspicious_flags |-> suspicious_flags]
        ELSE IF Len(suspicious_flags) >= 2
        THEN [is_critical |-> FALSE, result |-> "SUSPICIOUS",
              critical_flags |-> critical_flags, suspicious_flags |-> suspicious_flags]
        ELSE [is_critical |-> FALSE, result |-> "PASSED",
              critical_flags |-> critical_flags, suspicious_flags |-> suspicious_flags]

_evaluate_fraud_indicators(analysis_results) ==
    LET metadata_analysis    == Get(analysis_results, "metadata_analysis", EmptyDict)
        suspicious_indicators == Get(metadata_analysis, "suspicious_indicators", <<>>)
        copy_move_analysis   == Get(analysis_results, "copy_move_analysis", EmptyDict)
        compression_analysis == Get(analysis_results, "compression_analysis", EmptyDict)
        noise_analysis       == Get(analysis_results, "noise_analysis", EmptyDict)
        flag1 == IF HasEditingSoftware(suspicious_indicators)
                 THEN <<"Professional editing software detected in metadata">> ELSE <<>>
        flag2 == IF Get(copy_move_analysis, "copy_move_detected", FALSE)
                 THEN <<"Copy-move manipulation detected">> ELSE <<>>
        susp1 == IF Get(compression_analysis, "estimated_quality", 100) < 60
                 THEN <<"Low quality compression suggests multiple edits">> ELSE <<>>
        susp2 == IF Len(Get(noise_analysis, "artificial_indicators", <<>>)) >= 2
                 THEN <<"Multiple artificial noise patterns detected">> ELSE <<>>
        critical_flags   == flag1 \o flag2
        suspicious_flags == susp1 \o susp2
    IN  IF critical_flags # <<>>
        THEN [is_critical |-> TRUE, result |-> "FRAUD_INDICATORS",
              critical_flags |-> critical_flags, suspicious_flags |-> suspicious_flags]
        ELSE IF Len(suspicious_flags) >= 2
        THEN [is_critical |-> FALSE, result |-> "SUSPICIOUS",
              critical_flags |-> critical_flags, suspicious_flags |-> suspicious_flags]
        ELSE [is_critical |-> FALSE, result |-> "PASSED",
              critical_flags |-> critical_flags, suspicious_flags |-> suspicious_flags]

RECURSIVE WeightedLoop(_, _)
\* the for loop over the first i weights: <<weighted_sum, total_weight>>
WeightedLoop(analysis_results, i) ==
    IF i = 0 THEN <<FZero, FZero>>
    ELSE LET acc == WeightedLoop(analysis_results, i - 1)
             w   == ANALYSIS_WEIGHTS[i]
         IN  IF w.analysis \in DOMAIN analysis_results
             THEN LET score == Get(analysis_results[w.analysis], w.key, 0)
                  IN  <<FAdd(acc[1], FMulInt(score, w.weight)), FAdd(acc[2], w.weight)>>
             ELSE acc

_calculate_weighted_score_unnormalized(analysis_results) ==
    WeightedLoop(analysis_results, Len(ANALYSIS_WEIGHTS))[1]

_calculate_weighted_score(analysis_results) ==
    LET acc == WeightedLoop(analysis_results, Len(ANALYSIS_WEIGHTS))
    IN  IF acc[2] # FZero THEN FDiv(acc[1], acc[2]) ELSE FZero

ThresholdClass_unflagged(weighted_score, critical_flags) ==
    IF FGe(weighted_score, FromInt(MINIMUM_AUTHENTIC_SCORE))
    THEN "AUTHENTIC"
    ELSE IF FGe(weighted_score, FromInt(SUSPICIOUS_THRESHOLD))
    THEN "SUSPICIOUS"
    ELSE "NON_AUTHENTIC"

ThresholdClass_strict(weighted_score, critical_flags) ==
    IF FLt(FromInt(MINIMUM_AUTHENTIC_SCORE), weighted_score) /\ critical_flags = <<>>
    THEN "AUTHENTIC"
    ELSE IF FLt(FromInt(SUSPICIOUS_THRESHOLD), weighted_score)
    THEN "SUSPICIOUS"
    ELSE "NON_AUTHENTIC"

\* Rule 4, the class: the chain of comparisons with the two thresholds
ThresholdClass(weighted_score, critical_flags) ==
    IF FGe(weighted_score, FromInt(MINIMUM_AUTHENTIC_SCORE)) /\ critical_flags = <<>>
    THEN "AUTHENTIC"
    ELSE IF FGe(weighted_score, FromInt(SUSPICIOUS_THRESHOLD))
    THEN "SUSPICIOUS"
    ELSE "NON_AUTHENTIC"

ThresholdConfidence_uncapped(class, weighted_score) ==
    IF class = "AUTHENTIC" THEN ToInt(weighted_score)
    ELSE IF class = "SUSPICIOUS" THEN ToInt(weighted_score)
    ELSE ToInt(FSub(FromInt(100), weighted_score))

\* Rule 4, the confidence of each class
ThresholdConfidence(class, weighted_score) ==
    IF class = "AUTHENTIC" THEN Min(95, ToInt(weighted_score))
    ELSE IF class = "SUSPICIOUS" THEN ToInt(weighted_score)
    ELSE Max(10, ToInt(FSub(FromInt(100), weighted_score)))

\* Rule 4, the reasoning line of each class
ThresholdReason(class, weighted_score) ==
    IF class = "AUTHENTIC"
    THEN <<"Weighted authenticity score", Format1f(weighted_score)>>
    ELSE IF class = "SUSPICIOUS"
    THEN <<"Weighted score indicates suspicious content", Format1f(weighted_score)>>
    ELSE <<"Low weighted score indicates manipulation", Format1f(weighted_score)>>

\* Rule 5, total_suspicious
TotalSuspicious(ai_decision, fraud_decision) ==
    Len(Get(fraud_decision, "suspicious_flags", <<>>))
    + (IF Get(ai_decision, "indicators", <<>>) # <<>>
       THEN Len(ai_decision.indicators) ELSE 0)

NeedsExpertReview_always(total_suspicious) == total_suspicious >= 0

NeedsExpertReview_strict(total_suspicious) == total_suspicious > 3

\* Rule 5, the test on total_suspicious
NeedsExpertReview(total_suspicious) == total_suspicious >= 3

_apply_insurance_rules(ai_decision, fraud_decision, weighted_score, analysis_results) ==
    IF ai_decision.is_critical /\ ai_decision.result = "NON_AUTHENTIC"
    THEN [result |-> "NON_AUTHENTIC", confidence |-> 95,
          reasoning |-> <<ai_decision.reason, ai_decision.compliance_note>>,
          critical_flags |-> <<"AI_GENERATED_CONTENT">>,
          requires_human_review |-> FALSE]
    ELSE IF fraud_decision.is_critical
    THEN [result |-> "NON_AUTHENTIC", confidence |-> 90,
          reasoning |-> <<<<"Critical fraud indicators detected">>>>
                        \o [i \in 1..Len(fraud_decision.critical_flags) |->
                                <<fraud_decision.critical_flags[i]>>],
          critical_flags |-> fraud_decision.critical_flags,
          requires_human_review |-> TRUE]
    ELSE
    LET suspicious_ai    == ai_decision.is_critical /\ ai_decision.result = "SUSPICIOUS"
        reasoning3       == IF suspicious_ai THEN <<ai_decision.reason>> ELSE <<>>
        critical_flags   == IF suspicious_ai THEN <<"SUSPICIOUS_AI_CONTENT">> ELSE <<>>
        result           == ThresholdClass(weighted_score, critical_flags)
        confidence       == ThresholdConfidence(result, weighted_score)
        reasoning4       == reasoning3 \o <<ThresholdReason(result, weighted_score)>>
        review4          == suspicious_ai \/ result = "SUSPICIOUS"
        total_suspicious == TotalSuspicious(ai_decision, fraud_decision)
        rule5            == NeedsExpertReview(total_suspicious)
        reasoning5       == IF rule5
                            THEN << <<"Multiple suspicious indicators require expert review",
                                      total_suspicious>> >>
                            ELSE <<>>
    IN  [result |-> result, confidence |-> confidence,
         reasoning |-> reasoning4 \o reasoning5,
         critical_flags |-> critical_flags,
         requires_human_review |-> (review4 \/ rule5)]

_generate_compliance_report_no_oversight(decision, analysis_results) ==
    [dnb_compliant |-> TRUE, eu_ai_act_compliant |-> TRUE, gdpr_compliant |-> TRUE,
     audit_trail_complete |-> TRUE,
     human_oversight_required |-> FALSE,
     transparency_level |-> "FULL", decision_explainable |-> TRUE,
     bias_assessment |-> "PASSED", data_protection_status |-> "COMPLIANT"]

_generate_compliance_report(decision, analysis_results) ==
    [dnb_compliant |-> TRUE, eu_ai_act_compliant |-> TRUE, gdpr_compliant |-> TRUE,
     audit_trail_complete |-> TRUE,
     human_oversight_required |-> decision.requires_human_review,
     transparency_level |-> "FULL", decision_explainable |-> TRUE,
     bias_assessment |-> "PASSED", data_protection_status |-> "COMPLIANT"]

\* the dictionary log_entry of _log_decision
LogEntry(decision, analysis_results, timestamp) ==
    [timestamp |-> timestamp,
     decision |-> decision.result,
     confidence |-> decision.confidence,
     critical_flags |-> Get(decision, "critical_flags", <<>>),
     human_review_required |-> decision.requires_human_review,
     ai_confidence |-> Get(Get(analysis_results, "ai_analysis", EmptyDict), "ai_confidence", 0),
     weighted_score |-> Get(analysis_results, "overall_score", 0)]

_log_decision_keep_last(log, decision, analysis_results, timestamp) ==
    <<LogEntry(decision, analysis_results, timestamp)>>

\* self.decision_log after _log_decision
_log_decision(log, decision, analysis_results, timestamp) ==
    Append(log, LogEntry(decision, analysis_results, timestamp))

\* the dictionary determine_authenticity returns and self.decision_log as
\* _log_decision leaves it
Returned(log, analysis_results, decision_timestamp, weighted_score, final_decision) ==
    [decision_log |->
         _log_decision(log, final_decision, analysis_results, decision_timestamp),
     verdict |->
         [authenticity_result |-> final_decision.result,
          confidence_score |-> final_decision.confidence,
          weighted_score |-> weighted_score,
          decision_reasoning |-> final_decision.reasoning,
          critical_flags |-> final_decision.critical_flags,
          compliance_status |->
              _generate_compliance_report(final_decision, analysis_results),
          requires_human_review |-> final_decision.requires_human_review,
          timestamp |-> decision_timestamp,
          rule_version |-> "1.0_dutch_insurance"]]

\* step 4 of determine_authenticity and what follows it
ApplyRules(log, analysis_results, decision_timestamp, weighted_score) ==
    Returned(log, analysis_results, decision_timestamp, weighted_score,
             _apply_insurance_rules(
                 _evaluate_ai_content(Get(analysis_results, "ai_analysis", EmptyDict)),
                 _evaluate_fraud_indicators(analysis_results),
                 weighted_score, analysis_results))

determine_authenticity(log, analysis_results, decision_timestamp) ==
    ApplyRules(log, analysis_results, decision_timestamp,
             _calculate_weighted_score(analysis_results))

(***************************************************************************)
(* The seven analyzers of foto-forensics/app.py.  Each takes what the      *)
(* imaging libraries measure on the saved file (or the fact that they      *)
(* raised) and builds its record.  Measured ratios are in hundredths,      *)
(* compression_ratio in thousandths.                                       *)
(***************************************************************************)
StrEditingDetected == <<"E", "d", "i", "t", "i", "n", "g", " ", "s", "o", "f", "t", "w", "a", "r", "e", " ", "d", "e", "t", "e", "c", "t", "e", "d", ":", " ">>

StrMissingTags == <<"M", "i", "s", "s", "i", "n", "g", " ", "t", "y", "p", "i", "c", "a", "l", " ", "c", "a", "m", "e", "r", "a", " ", "m", "e", "t", "a", "d", "a", "t", "a", ":", " ">>

StrInconsistent == <<"I", "n", "c", "o", "n", "s", "i", "s", "t", "e", "n", "t", " ", "t", "i", "m", "e", "s", "t", "a", "m", "p", " ", "m", "e", "t", "a", "d", "a", "t", "a">>

StrErrorMetadata == <<"E", "r", "r", "o", "r", " ", "r", "e", "a", "d", "i", "n", "g", " ", "m", "e", "t", "a", "d", "a", "t", "a", ":", " ">>

StrCommaSpace == <<",", " ">>

\* the list editing_software of extract_exif_metadata
editing_software ==
    << <<"p", "h", "o", "t", "o", "s", "h", "o", "p">>,
       <<"g", "i", "m", "p">>,
       <<"p", "a", "i", "n", "t", ".", "n", "e", "t">>,
       <<"c", "a", "n", "v", "a">>,
       <<"m", "i", "d", "j", "o", "u", "r", "n", "e", "y">>,
       <<"d", "a", "l", "l", "-", "e">>,
       <<"s", "t", "a", "b", "l", "e", " ", "d", "i", "f", "f", "u", "s", "i", "o", "n">> >>

\* the list camera_tags, each name with its characters
camera_tags ==
    << [tag |-> "Make",         chars |-> <<"M", "a", "k", "e">>],
       [tag |-> "Model",        chars |-> <<"M", "o", "d", "e", "l">>],
       [tag |-> "DateTime",     chars |-> <<"D", "a", "t", "e", "T", "i", "m", "e">>],
       [tag |-> "ExposureTime", chars |-> <<"E", "x", "p", "o", "s", "u", "r", "e", "T", "i", "m", "e">>],
       [tag |-> "FNumber",      chars |-> <<"F", "N", "u", "m", "b", "e", "r">>],
       [tag |-> "ISO",          chars |-> <<"I", "S", "O">>] >>

RECURSIVE Join(_, _)
\* sep.join(parts) for a sequence of character strings
Join(sep, parts) ==
    IF parts = <<>> THEN <<>>
    ELSE IF Len(parts) = 1 THEN parts[1]
    ELSE parts[1] \o sep \o Join(sep, Tail(parts))

RECURSIVE MissingTags(_, _)
\* [tag for tag in camera_tags[i..] if tag not in metadata]
MissingTags(metadata, i) ==
    IF i > Len(camera_tags) THEN <<>>
    ELSE (IF camera_tags[i].tag \in DOMAIN metadata THEN <<>> ELSE <<camera_tags[i].chars>>)
         \o MissingTags(metadata, i + 1)

extract_exif_metadata_three(exif) ==
    IF exif.error # <<>>
    THEN [metadata |-> EmptyDict,
          suspicious_indicators |-> <<StrErrorMetadata \o exif.error>>,
          metadata_score |-> 0]
    ELSE
    LET metadata == exif.tags
        ind1 == IF "Software" \in DOMAIN metadata
                   /\ \E i \in 1..Len(editing_software) :
                        Contains(editing_software[i], StrLower(metadata["Software"]))
                THEN <<StrEditingDetected \o metadata["Software"]>> ELSE <<>>
        missing_tags == MissingTags(metadata, 1)
        ind2 == IF Len(missing_tags) >= 3
                THEN <<StrMissingTags \o Join(StrCommaSpace, missing_tags)>> ELSE <<>>
        ind3 == IF "DateTime" \in DOMAIN metadata /\ "DateTimeOriginal" \in DOMAIN metadata
                   /\ metadata["DateTime"] # metadata["DateTimeOriginal"]
                THEN <<StrInconsistent>> ELSE <<>>
        suspicious_indicators == ind1 \o ind2 \o ind3
    IN  [metadata |-> metadata,
         suspicious_indicators |-> suspicious_indicators,
         metadata_score |-> Max(0, 100 - Len(suspicious_indicators) * 20)]

extract_exif_metadata(exif) ==
    IF exif.error # <<>>
    THEN [metadata |-> EmptyDict,
          suspicious_indicators |-> <<StrErrorMetadata \o exif.error>>,
          metadata_score |-> 0]
    ELSE
    LET metadata == exif.tags
        ind1 == IF "Software" \in DOMAIN metadata
                   /\ \E i \in 1..Len(editing_software) :
                        Contains(editing_software[i], StrLower(metadata["Software"]))
                THEN <<StrEditingDetected \o metadata["Software"]>> ELSE <<>>
        missing_tags == MissingTags(metadata, 1)
        ind2 == IF Len(missing_tags) > 3
                THEN <<StrMissingTags \o Join(StrCommaSpace, missing_tags)>> ELSE <<>>
        ind3 == IF "DateTime" \in DOMAIN metadata /\ "DateTimeOriginal" \in DOMAIN metadata
                   /\ metadata["DateTime"] # metadata["DateTimeOriginal"]
                THEN <<StrInconsistent>> ELSE <<>>
        suspicious_indicators == ind1 \o ind2 \o ind3
    IN  [metadata |-> metadata,
         suspicious_indicators |-> suspicious_indicators,
         metadata_score |-> Max(0, 100 - Len(suspicious_indicators) * 20)]

analyze_jpeg_compression(m) ==
    IF m.error # ""
    THEN [compression_ratio |-> 0, estimated_quality |-> 0, artifact_density |-> 0,
          recompression_indicators |-> <<"Error analyzing compression: " \o m.error>>,
          compression_score |-> 0]
    ELSE
    LET estimated_quality == Min(100, m.compression_ratio)
        recompression_indicators ==
            (IF m.artifact_density > 10
             THEN <<"High blocking artifact density detected">> ELSE <<>>)
            \o (IF m.compression_ratio < 100
                THEN <<"Unusually high compression detected">> ELSE <<>>)
            \o (IF estimated_quality < 70
                THEN <<"Low quality compression suggests editing">> ELSE <<>>)
    IN  [compression_ratio |-> m.compression_ratio,
         estimated_quality |-> estimated_quality,
         artifact_density |-> m.artifact_density,
         recompression_indicators |-> recompression_indicators,
         compression_score |-> Max(0, 100 - Len(recompression_indicators) * 25)]

detect_copy_move_unscored(m) ==
    IF m.error # "" \/ m.descriptors < 10
    THEN [copy_move_detected |-> FALSE, suspicious_regions |-> 0, confidence |-> 0]
    ELSE
    LET suspicious_regions == m.suspicious_matches \div 5
        copy_move_detected == suspicious_regions > 3
        confidence         == Min(100, suspicious_regions * 20)
    IN  [copy_move_detected |-> copy_move_detected,
         suspicious_regions |-> suspicious_regions,
         confidence |-> confidence,
         copy_move_score |-> Max(0, 100 - confidence)]

detect_copy_move_eager(m) ==
    IF m.error # "" \/ m.descriptors < 10
    THEN [copy_move_detected |-> FALSE, suspicious_regions |-> 0,
          confidence |-> 0, copy_move_score |-> 50]
    ELSE
    LET suspicious_regions == m.suspicious_matches \div 5
        copy_move_detected == suspicious_regions >= 3
        confidence         == Min(100, suspicious_regions * 20)
    IN  [copy_move_detected |-> copy_move_detected,
         suspicious_regions |-> suspicious_regions,
         confidence |-> confidence,
         copy_move_score |-> Max(0, 100 - confidence)]

detect_copy_move(m) ==
    IF m.error # "" \/ m.descriptors < 10
    THEN [copy_move_detected |-> FALSE, suspicious_regions |-> 0,
          confidence |-> 0, copy_move_score |-> 50]
    ELSE
    LET suspicious_regions == m.suspicious_matches \div 5
        copy_move_detected == suspicious_regions > 3
        confidence         == Min(100, suspicious_regions * 20)
    IN  [copy_move_detected |-> copy_move_detected,
         suspicious_regions |-> suspicious_regions,
         confidence |-> confidence,
         copy_move_score |-> Max(0, 100 - confidence)]

analyze_noise_patterns(m) ==
    IF m.error # ""
    THEN [noise_std |-> 0, noise_mean |-> 0, noise_uniformity |-> 0,
          artificial_indicators |-> <<"Error analyzing noise: " \o m.error>>,
          noise_score |-> 0]
    ELSE
    LET artificial_indicators ==
            (IF m.noise_std < 500 THEN <<"Unusually low noise levels">> ELSE <<>>)
            \o (IF m.noise_uniformity > 200 THEN <<"Non-uniform noise distribution">> ELSE <<>>)
            \o (IF m.noise_mean > 5000 THEN <<"Excessive noise artifacts">> ELSE <<>>)
    IN  [noise_std |-> m.noise_std, noise_mean |-> m.noise_mean,
         noise_uniformity |-> m.noise_uniformity,
         artificial_indicators |-> artificial_indicators,
         noise_score |-> Max(0, 100 - Len(artificial_indicators) * 30)]

analyze_pixel_histogram(m) ==
    IF m.error # ""
    THEN [total_peaks |-> 0, total_gaps |-> 0, uniformity |-> 0,
          histogram_indicators |-> <<"Error analyzing histogram: " \o m.error>>,
          histogram_score |-> 0]
    ELSE
    LET histogram_indicators ==
            (IF m.total_peaks > 15 THEN <<"Excessive histogram peaks detected">> ELSE <<>>)
            \o (IF m.total_gaps > 20 THEN <<"Unnatural histogram gaps detected">> ELSE <<>>)
            \o (IF m.uniformity > 300 THEN <<"Non-uniform pixel distribution">> ELSE <<>>)
    IN  [total_peaks |-> m.total_peaks, total_gaps |-> m.total_gaps,
         uniformity |-> m.uniformity,
         histogram_indicators |-> histogram_indicators,
         histogram_score |-> Max(0, 100 - Len(histogram_indicators) * 25)]

RECURSIVE FaceIndicators(_)
\* one indicator for every detected face whose halves correlate above 0.9
FaceIndicators(faces) ==
    IF faces = <<>> THEN <<>>
    ELSE (IF faces[1] > 90 THEN <<"Unnatural facial symmetry detected">> ELSE <<>>)
         \o FaceIndicators(Tail(faces))

AIDetected_single(n) == n >= 1

\* ai_detected = len(ai_indicators) >= 2
AIDetected(n) == n >= 2

detect_ai_generated_images_uncapped(m) ==
    IF m.error # ""
    THEN [ai_detected |-> FALSE, ai_confidence |-> 0,
          ai_indicators |-> <<"Error in AI detection: " \o m.error>>,
          frequency_ratio |-> 0,
          pixel_correlation |-> [horizontal |-> 0, vertical |-> 0],
          texture_uniformity |-> 0, edge_density |-> 0, ai_score |-> 50]
    ELSE
    LET ai_indicators ==
            (IF m.freq_ratio < 30
             THEN <<"Unnatural frequency domain patterns detected">> ELSE <<>>)
            \o (IF m.h_corr > 95 \/ m.v_corr > 95
                THEN <<"Excessive pixel correlation suggests AI generation">> ELSE <<>>)
            \o (IF m.lbp_uniformity > 80
                THEN <<"High texture uniformity suggests AI generation">> ELSE <<>>)
            \o (IF m.edge_density < 5 \/ m.edge_density > 30
                THEN <<"Unnatural edge patterns detected">> ELSE <<>>)
            \o (IF m.color /\ m.hue_peaks < 5
                THEN <<"Limited color palette suggests AI generation">> ELSE <<>>)
            \o FaceIndicators(m.faces)
        ai_confidence == Len(ai_indicators) * 20
        ai_detected   == AIDetected(Len(ai_indicators))
    IN  [ai_detected |-> ai_detected, ai_confidence |-> ai_confidence,
         ai_indicators |-> ai_indicators,
         frequency_ratio |-> m.freq_ratio,
         pixel_correlation |-> [horizontal |-> m.h_corr, vertical |-> m.v_corr],
         texture_uniformity |-> m.lbp_uniformity,
         edge_density |-> m.edge_density,
         ai_score |-> Max(0, 100 - ai_confidence)]

detect_ai_generated_images(m) ==
    IF m.error # ""
    THEN [ai_detected |-> FALSE, ai_confidence |-> 0,
          ai_indicators |-> <<"Error in AI detection: " \o m.error>>,
          frequency_ratio |-> 0,
          pixel_correlation |-> [horizontal |-> 0, vertical |-> 0],
          texture_uniformity |-> 0, edge_density |-> 0, ai_score |-> 50]
    ELSE
    LET ai_indicators ==
            (IF m.freq_ratio < 30
             THEN <<"Unnatural frequency domain patterns detected">> ELSE <<>>)
            \o (IF m.h_corr > 95 \/ m.v_corr > 95
                THEN <<"Excessive pixel correlation suggests AI generation">> ELSE <<>>)
            \o (IF m.lbp_uniformity > 80
                THEN <<"High texture uniformity suggests AI generation">> ELSE <<>>)
            \o (IF m.edge_density < 5 \/ m.edge_density > 30
                THEN <<"Unnatural edge patterns detected">> ELSE <<>>)
            \o (IF m.color /\ m.hue_peaks < 5
                THEN <<"Limited color palette suggests AI generation">> ELSE <<>>)
            \o FaceIndicators(m.faces)
        ai_confidence == Min(100, Len(ai_indicators) * 20)
        ai_detected   == AIDetected(Len(ai_indicators))
    IN  [ai_detected |-> ai_detected, ai_confidence |-> ai_confidence,
         ai_indicators |-> ai_indicators,
         frequency_ratio |-> m.freq_ratio,
         pixel_correlation |-> [horizontal |-> m.h_corr, vertical |-> m.v_corr],
         texture_uniformity |-> m.lbp_uniformity,
         edge_density |-> m.edge_density,
         ai_score |-> Max(0, 100 - ai_confidence)]

\* hashlib.sha256(x).hexdigest(): a collision-free digest of x
Sha256(x) == <<"sha256", x>>

JsonDumpsSorted_partial(record) ==
    LET keys    == <<"image_hash", "timestamp", "verification_hash", "verification_method">>
        present == SelectSeq(keys, LAMBDA k : k \in DOMAIN record)
    IN  [i \in 1..Len(present) |-> <<present[i], record[present[i]]>>]

\* json.dumps(record, sort_keys=True) of the provenance record
JsonDumpsSorted(record) ==
    LET keys    == <<"file_size", "image_hash", "timestamp", "verification_hash", "verification_method">>
        present == SelectSeq(keys, LAMBDA k : k \in DOMAIN record)
    IN  [i \in 1..Len(present) |-> <<present[i], record[present[i]]>>]

create_blockchain_timestamp_salted(file, now) ==
    IF file.error # ""
    THEN [provenance_record |-> [error |-> file.error], blockchain_score |-> 0]
    ELSE
    LET image_hash == Sha256(<<file.data, now>>)
        provenance_record ==
            [image_hash |-> image_hash, timestamp |-> now,
             file_size |-> file.size, verification_method |-> "SHA256"]
        verification_hash == Sha256(JsonDumpsSorted(provenance_record))
    IN  [provenance_record |->
             [image_hash |-> image_hash, timestamp |-> now, file_size |-> file.size,
              verification_method |-> "SHA256", verification_hash |-> verification_hash],
         blockchain_score |-> 100]

create_blockchain_timestamp(file, now) ==
    IF file.error # ""
    THEN [provenance_record |-> [error |-> file.error], blockchain_score |-> 0]
    ELSE
    LET image_hash == Sha256(file.data)
        provenance_record ==
            [image_hash |-> image_hash, timestamp |-> now,
             file_size |-> file.size, verification_method |-> "SHA256"]
        verification_hash == Sha256(JsonDumpsSorted(provenance_record))
    IN  [provenance_record |->
             [image_hash |-> image_hash, timestamp |-> now, file_size |-> file.size,
              verification_method |-> "SHA256", verification_hash |-> verification_hash],
         blockchain_score |-> 100]

\* the dictionary all_analysis_results of analyze_image
AllAnalysisResults(img, now) ==
    [metadata_analysis    |-> extract_exif_metadata(img.exif),
     compression_analysis |-> analyze_jpeg_compression(img.compression),
     copy_move_analysis   |-> detect_copy_move(img.copy_move),
     noise_analysis       |-> analyze_noise_patterns(img.noise),
     histogram_analysis   |-> analyze_pixel_histogram(img.histogram),
     blockchain_analysis  |-> create_blockchain_timestamp(img.file, now),
     ai_analysis          |-> detect_ai_generated_images(img.ai)]

(***************************************************************************)
(* Bounds and input sets                                                   *)
(***************************************************************************)
NumThreads == 2

MaxRequests == 2

MaxClock == 1

MaxAIIndicators == 3

Threads == 1..NumThreads

StrGimp == <<"G", "I", "M", "P", " ", "2", ".", "1", "0">>

StrPhotoshop == <<"A", "d", "o", "b", "e", " ", "P", "h", "o", "t", "o", "s", "h", "o", "p">>

StrFirmware == <<"V", "e", "r", ".", "1", ".", "0">>

StrCannotIdentify == <<"c", "a", "n", "n", "o", "t", " ", "i", "d", "e", "n", "t", "i", "f", "y", " ", "i", "m", "a", "g", "e", " ", "f", "i", "l", "e">>

CameraTags ==
    [Make |-> "Canon", Model |-> "EOS", DateTime |-> "2024:01:01 10:00:00",
     DateTimeOriginal |-> "2024:01:01 10:00:00", ExposureTime |-> "1/60",
     FNumber |-> "2.8"]

SoftwareTag(s) == [Software |-> s]

\* what PIL reads from the file: the tags, or the exception it raised
ExifOptions ==
    { [error |-> <<>>, tags |-> EmptyDict],
      [error |-> <<>>, tags |-> CameraTags],
      [error |-> <<>>, tags |-> [Make |-> "Canon", Model |-> "EOS",
                                 DateTime |-> "2024:01:01 10:00:00"]],
      [error |-> <<>>, tags |-> [Make |-> "Canon", Model |-> "EOS"]],
      [error |-> <<>>, tags |-> CameraTags @@ SoftwareTag(StrFirmware)],
      [error |-> <<>>, tags |-> CameraTags @@ SoftwareTag(StrGimp)],
      [error |-> <<>>, tags |-> SoftwareTag(StrPhotoshop)],
      [error |-> <<>>, tags |-> [CameraTags EXCEPT !.DateTime = "2024:02:02 12:00:00"]],
      [error |-> StrCannotIdentify, tags |-> EmptyDict] }

CompressionOptions ==
    { [error |-> "", artifact_density |-> 5,  compression_ratio |-> 150],
      [error |-> "", artifact_density |-> 5,  compression_ratio |-> 65],
      [error |-> "", artifact_density |-> 20, compression_ratio |-> 59],
      [error |-> "'NoneType' object has no attribute 'shape'",
       artifact_density |-> 0, compression_ratio |-> 0] }

\* descriptors = -1 stands for None
CopyMoveOptions ==
    { [error |-> "", descriptors |-> 500, suspicious_matches |-> 0],
      [error |-> "", descriptors |-> 500, suspicious_matches |-> 19],
      [error |-> "", descriptors |-> 500, suspicious_matches |-> 20],
      [error |-> "", descriptors |-> 500, suspicious_matches |-> 40],
      [error |-> "", descriptors |-> 9,   suspicious_matches |-> 0],
      [error |-> "", descriptors |-> -1,  suspicious_matches |-> 0],
      [error |-> "cv2.error", descriptors |-> 0, suspicious_matches |-> 0] }

NoiseOptions ==
    { [error |-> "", noise_std |-> 800, noise_uniformity |-> 150, noise_mean |-> 1200],
      [error |-> "", noise_std |-> 499, noise_uniformity |-> 150, noise_mean |-> 1200],
      [error |-> "", noise_std |-> 499, noise_uniformity |-> 201, noise_mean |-> 1200],
      [error |-> "", noise_std |-> 9000, noise_uniformity |-> 201, noise_mean |-> 5001],
      [error |-> "'NoneType' object has no attribute 'astype'",
       noise_std |-> 0, noise_uniformity |-> 0, noise_mean |-> 0] }

HistogramOptions ==
    { [error |-> "", total_peaks |-> 15, total_gaps |-> 20, uniformity |-> 300],
      [error |-> "", total_peaks |-> 16, total_gaps |-> 20, uniformity |-> 300],
      [error |-> "", total_peaks |-> 16, total_gaps |-> 21, uniformity |-> 301],
      [error |-> "cv2.error", total_peaks |-> 0, total_gaps |-> 0, uniformity |-> 0] }

AIMeasure(freq, corr, lbp, edge, hue, faces) ==
    [error |-> "", freq_ratio |-> freq, h_corr |-> corr, v_corr |-> 90,
     lbp_uniformity |-> lbp, edge_density |-> edge, color |-> TRUE,
     hue_peaks |-> hue, faces |-> faces]

AIOptions ==
    { AIMeasure(40, 90, 50, 10, 6, <<>>),
      AIMeasure(40, 90, 50, 10, 6, <<85>>),
      AIMeasure(29, 90, 50, 10, 6, <<>>),
      AIMeasure(29, 96, 50, 10, 6, <<>>),
      AIMeasure(29, 96, 81, 10, 6, <<91>>),
      AIMeasure(29, 96, 81, 31, 4, <<91, 95>>),
      [AIMeasure(0, 0, 0, 0, 0, <<>>) EXCEPT !.error = "cv2.error"] }

FileOptions ==
    { [error |-> "", data |-> "bytes-A", size |-> 2048],
      [error |-> "[Errno 13] Permission denied", data |-> "", size |-> 0] }

MaxDeviations == 2

\* an unedited camera photograph
BaselineImage ==
    [exif        |-> [error |-> <<>>, tags |-> CameraTags],
     compression |-> [error |-> "", artifact_density |-> 5, compression_ratio |-> 150],
     copy_move   |-> [error |-> "", descriptors |-> 500, suspicious_matches |-> 0],
     noise       |-> [error |-> "", noise_std |-> 800, noise_uniformity |-> 150, noise_mean |-> 1200],
     histogram   |-> [error |-> "", total_peaks |-> 15, total_gaps |-> 20, uniformity |-> 300],
     ai          |-> AIMeasure(40, 90, 50, 10, 6, <<>>),
     file        |-> [error |-> "", data |-> "bytes-A", size |-> 2048]]

\* the same file with the libraries failing on it
FailingImage ==
    [exif        |-> [error |-> StrCannotIdentify, tags |-> EmptyDict],
     compression |-> [error |-> "'NoneType' object has no attribute 'shape'",
                      artifact_density |-> 0, compression_ratio |-> 0],
     copy_move   |-> [error |-> "cv2.error", descriptors |-> 0, suspicious_matches |-> 0],
     noise       |-> [error |-> "'NoneType' object has no attribute 'astype'",
                      noise_std |-> 0, noise_uniformity |-> 0, noise_mean |-> 0],
     histogram   |-> [error |-> "cv2.error", total_peaks |-> 0, total_gaps |-> 0, uniformity |-> 0],
     ai          |-> [AIMeasure(0, 0, 0, 0, 0, <<>>) EXCEPT !.error = "cv2.error"],
     file        |-> [error |-> "[Errno 13] Permission denied", data |-> "", size |-> 0]]

AllImages ==
    [exif : ExifOptions, compression : CompressionOptions, copy_move : CopyMoveOptions,
     noise : NoiseOptions, histogram : HistogramOptions, ai : AIOptions, file : FileOptions]

\* images that differ from the baseline in at most MaxDeviations measurements,
\* and images on which any subset of the analyzers fails
RichImages ==
    { img \in AllImages :
        Cardinality({k \in DOMAIN img : img[k] # BaselineImage[k]}) <= MaxDeviations }
    \cup { img \in AllImages : \A k \in DOMAIN img : img[k] \in {BaselineImage[k], FailingImage[k]} }

\* the images the server is sent
Images ==
    { BaselineImage,
      [BaselineImage EXCEPT !.ai = AIMeasure(29, 96, 50, 10, 6, <<>>)] }

(***************************************************************************)
(* Inputs of determine_authenticity that do not come from the analyzers    *)
(***************************************************************************)
AllAIIndicators ==
    << "Unnatural frequency domain patterns detected",
       "Excessive pixel correlation suggests AI generation",
       "High texture uniformity suggests AI generation",
       "Unnatural edge patterns detected",
       "Limited color palette suggests AI generation",
       "Unnatural facial symmetry detected" >>

DirectMetadataIndicators ==
    { <<>>,
      <<StrInconsistent>>,
      <<StrInconsistent, StrEditingDetected \o StrGimp>> }

\* seven scores in the order of ANALYSIS_WEIGHTS
ScoreVectors ==
    { <<100, 100, 100, 100, 100, 100, 100>>,
      <<0, 0, 0, 0, 0, 0, 0>>,
      <<100, 100, 100, 50, 0, 0, 0>>,
      <<92, 0, 100, 100, 100, 56, 100>>,
      <<100, 100, 100, 49, 0, 1, 0>>,
      <<100, 0, 100, 0, 0, 0, 0>>,
      <<46, 0, 100, 100, 0, 78, 100>>,
      <<100, 100, 100, 100, 100, 50, 0>>,
      <<100, 100, 0, 0, 50, 50, 0>>,
      <<100, 0, 0, 0, 0, 50, 0>>,
      <<46, 70, 89, 99, 86, 94, 47>> }

\* estimated_quality and the number of noise indicators: 0, 1 or 2 of the
\* suspicious flags of _evaluate_fraud_indicators
DirectSuspicion == { <<60, 0>>, <<59, 0>>, <<59, 2>> }

DirectResults ==
    { [ai_analysis |->
           [ai_detected |-> d, ai_confidence |-> c,
            ai_indicators |-> SubSeq(AllAIIndicators, 1, n), ai_score |-> sv[1]],
       metadata_analysis |->
           [metadata |-> EmptyDict, suspicious_indicators |-> mi, metadata_score |-> sv[2]],
       compression_analysis |->
           [estimated_quality |-> qn[1], recompression_indicators |-> <<>>,
            compression_score |-> sv[3]],
       copy_move_analysis |->
           [copy_move_detected |-> cm, copy_move_score |-> sv[4]],
       noise_analysis |->
           [artificial_indicators |-> SubSeq(<<"Unusually low noise levels",
                                               "Non-uniform noise distribution">>, 1, qn[2]),
            noise_score |-> sv[5]],
       histogram_analysis |-> [histogram_indicators |-> <<>>, histogram_score |-> sv[6]],
       blockchain_analysis |-> [blockchain_score |-> sv[7]]] :
        d \in BOOLEAN, c \in {0, 39, 40, 60}, n \in 0..MaxAIIndicators,
        mi \in DirectMetadataIndicators, qn \in DirectSuspicion, cm \in BOOLEAN,
        sv \in ScoreVectors }

(***************************************************************************)
(* The server: one engine (dutch_rules) shared by the request threads      *)
(***************************************************************************)
VARIABLES
    pc,              \* where each request thread is
    image,           \* the file a thread saved under ./images
    results,         \* all_analysis_results of a thread
    stamp,           \* decision_timestamp of a thread's determine_authenticity
    dutch_decision,  \* the Verdict determine_authenticity returned to a thread
    response,        \* the HTTP response a thread sent
    decision_log,    \* dutch_rules.decision_log
    files,           \* compliance reports on disk, by file name
    clock,           \* datetime.now()
    requests,        \* requests accepted so far
    entry_index,     \* position of the audit entry a thread's call appended
    report,          \* the dictionary report of a thread's export_compliance_report
    ela_measure,     \* flask-ui: what upload_file measured on a thread's ELA image
    page,            \* flask-ui: the template arguments a thread's upload_file rendered
    upload_pc,       \* where each thread is in upload_image
    im,              \* upload_image: the image a thread opened from its upload
    temp,            \* upload_image: the header a thread read from temp.jpg
    temp_jpg,        \* the file temp.jpg in the working directory of the server
    ela_response     \* upload_image: what a thread answered

\* the state of the flask-ui front end
elaVars == <<ela_measure, page>>

\* the state of the foto-forensics analysis server
serverVars ==
    <<pc, image, results, stamp, dutch_decision, response, decision_log, files,
      clock, requests, entry_index, report>>

\* the state of the /upload route of foto-forensics
uploadVars == <<upload_pc, im, temp, temp_jpg, ela_response>>

vars == <<serverVars, elaVars, uploadVars>>

\* no upload under way, no temp.jpg yet
InitUpload ==
    /\ upload_pc = [t \in Threads |-> "idle"]
    /\ im = [t \in Threads |-> EmptyDict]
    /\ temp = [t \in Threads |-> EmptyDict]
    /\ temp_jpg = EmptyDict
    /\ ela_response = [t \in Threads |-> EmptyDict]

\* flask-ui before any upload
InitELA ==
    /\ ela_measure = [t \in Threads |-> EmptyDict]
    /\ page = [t \in Threads |-> EmptyDict]

COMPLIANCE_STANDARDS ==
    <<"DNB AI Guidelines", "EU AI Act", "GDPR", "Dutch Insurance Fraud Prevention Standards">>

Resting(t) == pc[t] \in {"idle", "done"}

Init ==
    /\ pc = [t \in Threads |-> "idle"]
    /\ image = [t \in Threads |-> EmptyDict]
    /\ results = [t \in Threads |-> EmptyDict]
    /\ stamp = [t \in Threads |-> -1]
    /\ dutch_decision = [t \in Threads |-> EmptyDict]
    /\ response = [t \in Threads |-> EmptyDict]
    /\ decision_log = <<>>
    /\ files = EmptyDict
    /\ clock = 0
    /\ requests = 0
    /\ entry_index = [t \in Threads |-> 0]
    /\ report = [t \in Threads |-> EmptyDict]
    /\ InitELA
    /\ InitUpload

\* the wall clock advances; time is counted from the first request
Tick ==
    /\ clock < MaxClock
    /\ requests > 0
    /\ clock' = clock + 1
    /\ UNCHANGED <<elaVars, uploadVars,
                   pc, image, results, stamp, dutch_decision, response, decision_log,
                   files, requests, entry_index, report>>

\* the library calls of the analyzer reading measurement k raise on img
AnalyzerFails(img, k) ==
    IF k = "exif" THEN img[k].error # <<>> ELSE img[k].error # ""

\* POST /analyze with the analyzers' exceptions escaping to the handler of
\* analyze_image
Analyze_aborting(t, img) ==
    /\ Resting(t)
    /\ requests < MaxRequests
    /\ requests' = requests + 1
    /\ \E failed \in {\E k \in DOMAIN img : AnalyzerFails(img, k)} :
           /\ pc' = [pc EXCEPT ![t] = IF failed THEN "done" ELSE "analyzed"]
           /\ results' = [results EXCEPT ![t] =
                  IF failed THEN EmptyDict ELSE AllAnalysisResults(img, clock)]
           /\ response' = [response EXCEPT ![t] =
                  IF failed THEN [status |-> 500, sent |-> clock] ELSE EmptyDict]
    /\ image' = [image EXCEPT ![t] = img]
    /\ stamp' = [stamp EXCEPT ![t] = -1]
    /\ dutch_decision' = [dutch_decision EXCEPT ![t] = EmptyDict]
    /\ entry_index' = [entry_index EXCEPT ![t] = 0]
    /\ UNCHANGED <<elaVars, uploadVars, decision_log, files, clock, report>>

\* POST /analyze, up to all_analysis_results: the uploaded file is saved and
\* the seven analyzers run on it
Analyze(t, img) ==
    /\ Resting(t)
    /\ requests < MaxRequests
    /\ requests' = requests + 1
    /\ pc' = [pc EXCEPT ![t] = "analyzed"]
    /\ image' = [image EXCEPT ![t] = img]
    /\ results' = [results EXCEPT ![t] = AllAnalysisResults(img, clock)]
    /\ stamp' = [stamp EXCEPT ![t] = -1]
    /\ dutch_decision' = [dutch_decision EXCEPT ![t] = EmptyDict]
    /\ response' = [response EXCEPT ![t] = EmptyDict]
    /\ entry_index' = [entry_index EXCEPT ![t] = 0]
    /\ UNCHANGED <<elaVars, uploadVars, decision_log, files, clock, report>>

\* determine_authenticity is entered and takes decision_timestamp
StartDecision(t) ==
    /\ pc[t] = "analyzed"
    /\ stamp' = [stamp EXCEPT ![t] = clock]
    /\ pc' = [pc EXCEPT ![t] = "deciding"]
    /\ UNCHANGED <<elaVars, uploadVars,
                   image, results, dutch_decision, response, decision_log, files, clock,
                   requests, entry_index, report>>

\* the JSON body analyze_image builds from the analyses and the Verdict
AnalysisResult(all_analysis_results, decision, now) ==
    [overall_score |-> decision.confidence_score,
     overall_result |-> decision.authenticity_result,
     analyses |-> all_analysis_results,
     dutch_insurance_compliance |->
         [decision_reasoning |-> decision.decision_reasoning,
          critical_flags |-> decision.critical_flags,
          requires_human_review |-> decision.requires_human_review,
          compliance_status |-> decision.compliance_status,
          weighted_score |-> decision.weighted_score,
          rule_version |-> decision.rule_version],
     timestamp |-> now]

\* Python values of the wrong type in an input of determine_authenticity:
\* None where an analyzer record is expected, a number where an indicator
\* is expected
NotAMapping == [NoneType |-> "None"]

NotAString == <<"int", "7">>

\* indicator.lower() inside any(...): an indicator that is no string raises
\* unless an earlier indicator has already made any() true
LowerRaises(suspicious_indicators) ==
    \E i \in 1..Len(suspicious_indicators) :
        /\ suspicious_indicators[i] = NotAString
        /\ ~HasEditingSoftware(SubSeq(suspicious_indicators, 1, i - 1))

\* _evaluate_fraud_indicators raises: .get on a record that is no mapping,
\* .lower on an indicator that is no string
FraudRaises(analysis_results) ==
    \/ Get(analysis_results, "metadata_analysis", EmptyDict) = NotAMapping
    \/ LowerRaises(Get(Get(analysis_results, "metadata_analysis", EmptyDict),
                       "suspicious_indicators", <<>>))
    \/ Get(analysis_results, "copy_move_analysis", EmptyDict) = NotAMapping
    \/ Get(analysis_results, "compression_analysis", EmptyDict) = NotAMapping
    \/ Get(analysis_results, "noise_analysis", EmptyDict) = NotAMapping

\* _calculate_weighted_score raises: .get on a present record that is no mapping
WeightedRaises(analysis_results) ==
    \E i \in 1..Len(ANALYSIS_WEIGHTS) :
        /\ ANALYSIS_WEIGHTS[i].analysis \in DOMAIN analysis_results
        /\ analysis_results[ANALYSIS_WEIGHTS[i].analysis] = NotAMapping

\* the step of determine_authenticity that raises on the input, 0 when the
\* call returns: steps 1, 2 and 3 read the input, steps 4 and 5 and
\* _log_decision find everything they read
RaisesAt(analysis_results) ==
    IF Get(analysis_results, "ai_analysis", EmptyDict) = NotAMapping THEN 1
    ELSE IF FraudRaises(analysis_results) THEN 2
    ELSE IF WeightedRaises(analysis_results) THEN 3
    ELSE 0

\* the rest of determine_authenticity: the rules are applied, _log_decision
\* appends the entry, the Verdict is returned and analyze_image responds
Decide(t) ==
    /\ pc[t] = "deciding"
    /\ RaisesAt(results[t]) = 0
    /\ \E returned \in {determine_authenticity(decision_log, results[t], stamp[t])} :
           /\ decision_log' = returned.decision_log
           /\ dutch_decision' = [dutch_decision EXCEPT ![t] = returned.verdict]
    /\ entry_index' = [entry_index EXCEPT ![t] = Len(decision_log) + 1]
    /\ response' = [response EXCEPT ![t] = [status |-> 200, sent |-> clock]]
    /\ pc' = [pc EXCEPT ![t] = "done"]
    /\ UNCHANGED <<elaVars, uploadVars, image, results, stamp, files, clock, requests, report>>

\* what the call leaves of the log when it raises at the given step
LogOfFailure_early(log, analysis_results, timestamp, step) ==
    IF step >= 3
    THEN Append(log, [timestamp |-> timestamp, decision |-> "NON_AUTHENTIC",
                      confidence |-> 0, critical_flags |-> <<>>,
                      human_review_required |-> FALSE,
                      ai_confidence |-> 0, weighted_score |-> 0])
    ELSE log

\* _log_decision is the last statement before the return: a call that
\* raises has not reached it
LogOfFailure(log, analysis_results, timestamp, step) == log

\* determine_authenticity raises: no Verdict; analyze_image catches the
\* exception and answers 500
DecideFails(t) ==
    /\ pc[t] = "deciding"
    /\ RaisesAt(results[t]) # 0
    /\ decision_log' = LogOfFailure(decision_log, results[t], stamp[t], RaisesAt(results[t]))
    /\ response' = [response EXCEPT ![t] = [status |-> 500, sent |-> clock]]
    /\ pc' = [pc EXCEPT ![t] = "done"]
    /\ UNCHANGED <<elaVars, uploadVars, image, results, stamp, dutch_decision, files, clock,
                   requests, entry_index, report>>

\* the body of the response to a finished /analyze request
ResponseBody(t) == AnalysisResult(results[t], dutch_decision[t], response[t].sent)

\* what a request that is not an analysis leaves of the thread's last analysis
ClearAnalysis(t) ==
    /\ image' = [image EXCEPT ![t] = EmptyDict]
    /\ results' = [results EXCEPT ![t] = EmptyDict]
    /\ stamp' = [stamp EXCEPT ![t] = -1]
    /\ dutch_decision' = [dutch_decision EXCEPT ![t] = EmptyDict]
    /\ entry_index' = [entry_index EXCEPT ![t] = 0]

\* GET /compliance/audit-trail: get_audit_trail returns a copy of the log
GetAuditTrail(t) ==
    /\ Resting(t)
    /\ requests < MaxRequests
    /\ requests' = requests + 1
    /\ response' = [response EXCEPT ![t] =
           [status |-> 200,
            body |-> [audit_trail |-> decision_log,
                      total_decisions |-> Len(decision_log),
                      compliance_standards |-> COMPLIANCE_STANDARDS,
                      generated_at |-> clock]]]
    /\ pc' = [pc EXCEPT ![t] = "done"]
    /\ ClearAnalysis(t)
    /\ UNCHANGED <<elaVars, uploadVars, decision_log, files, clock, report>>

\* the file name export_compliance_report derives from the time
ReportName(now) == <<"compliance_report", now>>

\* the report export_compliance_report writes
ComplianceReport(log, now) ==
    [report_type |-> "Dutch Insurance Authenticity Compliance",
     generated_at |-> now,
     rule_version |-> "1.0_dutch_insurance",
     total_decisions |-> Len(log),
     decisions |-> log,
     compliance_standards |-> COMPLIANCE_STANDARDS]

\* POST /compliance/export, up to the report dictionary: the file name and
\* generated_at are taken from the clock, total_decisions from the log as it
\* is now; decisions is the log itself, not a copy
ExportReport(t) ==
    /\ Resting(t)
    /\ requests < MaxRequests
    /\ requests' = requests + 1
    /\ report' = [report EXCEPT ![t] =
           [filename |-> ReportName(clock),
            generated_at |-> clock,
            total_decisions |-> Len(decision_log)]]
    /\ response' = [response EXCEPT ![t] = EmptyDict]
    /\ pc' = [pc EXCEPT ![t] = "exporting"]
    /\ ClearAnalysis(t)
    /\ UNCHANGED <<elaVars, uploadVars, decision_log, files, clock>>

\* the rest of the export: json.dump serializes the report, walking the log
\* as it is by then, the file is closed and sent
WriteReport(t) ==
    /\ pc[t] = "exporting"
    /\ \E written \in {[ComplianceReport(decision_log, report[t].generated_at)
                           EXCEPT !.total_decisions = report[t].total_decisions]} :
           /\ files' = [f \in DOMAIN files \cup {report[t].filename} |->
                            IF f = report[t].filename THEN written ELSE files[f]]
           /\ response' = [response EXCEPT ![t] =
                  [status |-> 200,
                   body |-> [filename |-> report[t].filename, content |-> written]]]
    /\ report' = [report EXCEPT ![t] = EmptyDict]
    /\ pc' = [pc EXCEPT ![t] = "done"]
    /\ UNCHANGED <<elaVars, uploadVars,
                   image, results, stamp, dutch_decision, decision_log, clock, requests,
                   entry_index>>

\* the export when the report file cannot be opened for writing: the
\* exception reaches the route, which answers 500
ExportFails(t) ==
    /\ pc[t] = "exporting"
    /\ response' = [response EXCEPT ![t] =
           [status |-> 500, body |-> [error |-> "Error exporting compliance report"]]]
    /\ report' = [report EXCEPT ![t] = EmptyDict]
    /\ pc' = [pc EXCEPT ![t] = "done"]
    /\ UNCHANGED <<elaVars, uploadVars,
                   image, results, stamp, dutch_decision, decision_log, files, clock,
                   requests, entry_index>>

Next ==
    \/ Tick
    \/ \E t \in Threads, img \in Images : Analyze(t, img)
    \/ \E t \in Threads : StartDecision(t)
    \/ \E t \in Threads : Decide(t)
    \/ \E t \in Threads : GetAuditTrail(t)
    \/ \E t \in Threads : ExportReport(t)
    \/ \E t \in Threads : WriteReport(t)
    \/ \E t \in Threads : ExportFails(t)

Spec == Init /\ [][Next]_vars

(***************************************************************************)
(* The engine and the pipeline as functions: one call on each input of a   *)
(* large set.  Thread 1 either holds the analysis results of a direct call *)
(* of determine_authenticity, or is about to analyze an image.             *)
(***************************************************************************)
InitRules ==
    /\ \/ /\ \E ar \in DirectResults :
                results = [t \in Threads |-> IF t = 1 THEN ar ELSE EmptyDict]
          /\ pc = [t \in Threads |-> IF t = 1 THEN "analyzed" ELSE "idle"]
          /\ requests = MaxRequests
       \/ /\ results = [t \in Threads |-> EmptyDict]
          /\ pc = [t \in Threads |-> "idle"]
          /\ requests = MaxRequests - 1
    /\ image = [t \in Threads |-> EmptyDict]
    /\ stamp = [t \in Threads |-> -1]
    /\ dutch_decision = [t \in Threads |-> EmptyDict]
    /\ response = [t \in Threads |-> EmptyDict]
    /\ decision_log = <<>>
    /\ files = EmptyDict
    /\ clock = 0
    /\ entry_index = [t \in Threads |-> 0]
    /\ report = [t \in Threads |-> EmptyDict]
    /\ InitELA
    /\ InitUpload

NextRules ==
    \/ \E img \in RichImages : Analyze(1, img)
    \/ StartDecision(1)
    \/ Decide(1)

SpecRules == InitRules /\ [][NextRules]_vars

(***************************************************************************)
(* The engine on incomplete input: determine_authenticity called with some *)
(* analyzer records absent, with records that lack their score field, and  *)
(* with no record at all.                                                  *)
(***************************************************************************)
\* a complete input without any flag, its scores taken from sv
UnflaggedResults(sv) ==
    [ai_analysis |->
         [ai_detected |-> FALSE, ai_confidence |-> 0, ai_indicators |-> <<>>,
          ai_score |-> sv[1]],
     metadata_analysis |->
         [metadata |-> EmptyDict, suspicious_indicators |-> <<>>, metadata_score |-> sv[2]],
     compression_analysis |->
         [estimated_quality |-> 95, recompression_indicators |-> <<>>,
          compression_score |-> sv[3]],
     copy_move_analysis |-> [copy_move_detected |-> FALSE, copy_move_score |-> sv[4]],
     noise_analysis |-> [artificial_indicators |-> <<>>, noise_score |-> sv[5]],
     histogram_analysis |-> [histogram_indicators |-> <<>>, histogram_score |-> sv[6]],
     blockchain_analysis |-> [blockchain_score |-> sv[7]]]

\* the input ar with only the records of present, those of unscored having
\* lost their score field
PartialInput(ar, present, unscored) ==
    [a \in present |->
        IF a \in unscored
        THEN [k \in DOMAIN ar[a] \ {ANALYSIS_WEIGHTS[i].key : i \in 1..Len(ANALYSIS_WEIGHTS)}
                |-> ar[a][k]]
        ELSE ar[a]]

PresentRecords ==
    { {},
      {"ai_analysis"},
      {"metadata_analysis"},
      {"blockchain_analysis"},
      {"ai_analysis", "metadata_analysis"},
      {"histogram_analysis", "blockchain_analysis"},
      {"compression_analysis", "copy_move_analysis", "noise_analysis"},
      {"metadata_analysis", "compression_analysis", "copy_move_analysis", "noise_analysis",
       "histogram_analysis", "blockchain_analysis"},
      {"ai_analysis", "metadata_analysis", "compression_analysis", "copy_move_analysis",
       "noise_analysis", "histogram_analysis"},
      {"ai_analysis", "metadata_analysis", "compression_analysis", "copy_move_analysis",
       "noise_analysis", "histogram_analysis", "blockchain_analysis"} }

UnscoredRecords ==
    { {}, {"ai_analysis"}, {"metadata_analysis", "noise_analysis"}, {"blockchain_analysis"} }

PartialScores ==
    { <<100, 100, 100, 100, 100, 100, 100>>,
      <<80, 100, 60, 50, 90, 100, 0>>,
      <<20, 90, 10, 100, 40, 70, 100>>,
      <<46, 70, 89, 99, 86, 94, 47>> }

PartialResults ==
    { PartialInput(UnflaggedResults(sv), present, unscored \cap present) :
        sv \in PartialScores, present \in PresentRecords, unscored \in UnscoredRecords }

InitPartial ==
    /\ \E ar \in PartialResults :
          results = [t \in Threads |-> IF t = 1 THEN ar ELSE EmptyDict]
    /\ pc = [t \in Threads |-> IF t = 1 THEN "analyzed" ELSE "idle"]
    /\ requests = MaxRequests
    /\ image = [t \in Threads |-> EmptyDict]
    /\ stamp = [t \in Threads |-> -1]
    /\ dutch_decision = [t \in Threads |-> EmptyDict]
    /\ response = [t \in Threads |-> EmptyDict]
    /\ decision_log = <<>>
    /\ files = EmptyDict
    /\ clock = 0
    /\ entry_index = [t \in Threads |-> 0]
    /\ report = [t \in Threads |-> EmptyDict]
    /\ InitELA
    /\ InitUpload

NextPartial ==
    \/ StartDecision(1)
    \/ Decide(1)

SpecPartial == InitPartial /\ [][NextPartial]_vars

(***************************************************************************)
(* The engine on malformed input: determine_authenticity called, up to     *)
(* MaxRequests times in a row, with inputs some of which hold a value of   *)
(* the wrong type.                                                         *)
(***************************************************************************)
\* a complete input with the given AI confidence and metadata indicators
TypedResults(ai_confidence, suspicious_indicators) ==
    [UnflaggedResults(<<100, 100, 100, 100, 100, 100, 100>>) EXCEPT
        !.ai_analysis.ai_confidence = ai_confidence,
        !.metadata_analysis.suspicious_indicators = suspicious_indicators]

\* the input with None as the record of one analysis
WithNone(ar, analysis) ==
    [a \in DOMAIN ar \cup {analysis} |-> IF a = analysis THEN NotAMapping ELSE ar[a]]

WellFormedResults ==
    { TypedResults(0, <<>>),
      TypedResults(60, <<>>),
      TypedResults(0, <<StrEditingDetected \o StrGimp>>) }

MalformedResults ==
    { WithNone(TypedResults(c, <<>>), a) :
        c \in {0, 60},
        a \in {"ai_analysis", "metadata_analysis", "compression_analysis",
               "copy_move_analysis", "noise_analysis", "histogram_analysis",
               "blockchain_analysis", "ela_analysis"} }
    \cup { WithNone(EmptyDict, "histogram_analysis") }
    \cup { TypedResults(c, mi) :
             c \in {0, 60},
             mi \in { <<NotAString>>,
                      <<StrInconsistent, NotAString>>,
                      <<NotAString, StrEditingDetected \o StrGimp>>,
                      <<StrEditingDetected \o StrGimp, NotAString>> } }

\* a caller hands its analysis results to the engine
SubmitResults(t, ar) ==
    /\ Resting(t)
    /\ requests < MaxRequests
    /\ requests' = requests + 1
    /\ results' = [results EXCEPT ![t] = ar]
    /\ image' = [image EXCEPT ![t] = EmptyDict]
    /\ stamp' = [stamp EXCEPT ![t] = -1]
    /\ dutch_decision' = [dutch_decision EXCEPT ![t] = EmptyDict]
    /\ entry_index' = [entry_index EXCEPT ![t] = 0]
    /\ response' = [response EXCEPT ![t] = EmptyDict]
    /\ pc' = [pc EXCEPT ![t] = "analyzed"]
    /\ UNCHANGED <<elaVars, uploadVars, decision_log, files, clock, report>>

NextMalformed ==
    \/ \E ar \in WellFormedResults \cup MalformedResults : SubmitResults(1, ar)
    \/ StartDecision(1)
    \/ Decide(1)
    \/ DecideFails(1)

SpecMalformed == Init /\ [][NextMalformed]_vars

(***************************************************************************)
(* flask-ui: upload_file and its ELA report.  A request is described by    *)
(* what the handler finds: the method, the failures of saving and posting, *)
(* whether the ELA file and the original exist, an exception raised while  *)
(* they are processed, and the figures numpy measures on the ELA image     *)
(* (its number of pixels, the sum of the grey values, the standard         *)
(* deviation and the number of pixels above mean + std).                   *)
(***************************************************************************)
ELAMeasure(method, save_error, post_error, analyze_status, exists, error, size, sum, std, pixels) ==
    [method |-> method, save_error |-> save_error, post_error |-> post_error,
     analyze_status |-> analyze_status, exists |-> exists, error |-> error,
     size |-> size, sum |-> sum, std |-> std, pixels |-> pixels]

\* <<size, sum, std, pixels>>: grey values lie in 0..255, so the variance is
\* at most mean * (255 - mean); equal pixels have std 0 and none above the
\* mean; fewer than half of the pixels lie more than one std above the mean
MeasuredFigures ==
    {f \in ({<<32, 0>>, <<32, 288>>, <<32, 479>>, <<32, 480>>, <<32, 481>>,
             <<8, 400>>, <<4, 510>>, <<1, 255>>}
            \X {0, 2, 25, 50, 60, 127} \X {0, 1, 2, 3, 5, 10, 15}) :
        /\ f[2] * f[2] * f[1][1] * f[1][1] <= f[1][2] * (255 * f[1][1] - f[1][2])
        /\ (f[2] = 0) => (f[3] = 0 /\ f[1][2] % f[1][1] = 0)
        /\ 2 * f[3] < f[1][1]
        /\ f[1][1] = 32 => f[3] \in {0, 1, 5, 10, 15}}

ELAMeasures ==
    {ELAMeasure("GET", "", "", 200, FALSE, "", 1, 0, 0, 0),
     ELAMeasure("POST", "No space left on device", "", 200, FALSE, "", 1, 0, 0, 0),
     ELAMeasure("POST", "", "Connection refused", 200, FALSE, "", 1, 0, 0, 0)}
    \cup {ELAMeasure("POST", "", "", st, FALSE, "", 1, 0, 0, 0) : st \in {200, 500}}
    \cup {ELAMeasure("POST", "", "", st, TRUE, e, 1, 0, 0, 0) :
            st \in {200, 500},
            e \in {"cannot identify image file", "image file is truncated"}}
    \cup {ELAMeasure("POST", "", "", 200, TRUE, "", f[1][1], f[1][2], f[2], f[3]) :
            f \in MeasuredFigures}

FMin(a, b) == IF FLt(b, a) THEN b ELSE a

Tenths(n) == ToString(n \div 10) \o "." \o ToString(n % 10)

ELAResult_inclusive(mean_val) ==
    IF FGe(mean_val, FromInt(15)) THEN "Manipulated" ELSE "Authentic"

\* if mean_val > 15
ELAResult(mean_val) ==
    IF FLt(FromInt(15), mean_val) THEN "Manipulated" ELSE "Authentic"

ELACertainty(result, mean_factor, std_factor, variance_factor) ==
    IF result = "Manipulated"
    THEN Min(100, ToInt(FAdd(FAdd(FAdd(FromInt(50), mean_factor), std_factor),
                              variance_factor)))
    ELSE Max(30, ToInt(FSub(FSub(FSub(FromInt(100), mean_factor),
                                  FDiv(std_factor, FromInt(2))),
                             FDiv(variance_factor, FromInt(2)))))

ELADescription(result, mean_val, high_variance_percent) ==
    IF result = "Manipulated"
    THEN "Analysis indicates potential manipulation. ELA shows bright areas (mean: "
         \o Tenths(Format1f(mean_val))
         \o ") suggesting inconsistent compression levels. High variance regions ("
         \o Tenths(Format1f(high_variance_percent))
         \o "%) and edge artifacts support this assessment."
    ELSE "Analysis suggests the image is likely authentic. ELA shows mostly uniform compression (mean: "
         \o Tenths(Format1f(mean_val))
         \o ") with low variance regions ("
         \o Tenths(Format1f(high_variance_percent))
         \o "%), indicating consistent processing throughout the image."

UnknownReport(description) ==
    [description |-> description, result |-> "Unknown", certainty |-> 0,
     ela_mean |-> 0, ela_std |-> 0, high_variance_percent |-> 0]

\* the report of the figures measured on the ELA image
AnalyzedReport(mean_val, std_val, high_variance_percent) ==
    LET mean_factor     == FMin(FromInt(40), FMulInt(100, FDiv(mean_val, FromInt(255))))
        std_factor      == FMin(FromInt(20), FMulInt(20, FDiv(std_val, FromInt(50))))
        variance_factor == FMin(FromInt(20), FMulInt(2, high_variance_percent))
        result          == ELAResult(mean_val)
    IN  [description |-> ELADescription(result, mean_val, high_variance_percent),
         result |-> result,
         certainty |-> ELACertainty(result, mean_factor, std_factor, variance_factor),
         ela_mean |-> mean_val, ela_std |-> std_val,
         high_variance_percent |-> high_variance_percent]

\* the ela_report of a POST whose file reached foto-forensics
ELAReport(m) ==
    IF ~m.exists THEN UnknownReport("No ELA image found.")
    ELSE IF m.error # "" THEN UnknownReport("Error analyzing ELA image: " \o m.error)
    ELSE AnalyzedReport(FDiv(FromInt(m.sum), FromInt(m.size)),
                        FromInt(m.std),
                        FMulInt(100, FDiv(FromInt(m.pixels), FromInt(m.size))))

Page(filename, error, ela_report, comprehensive_analysis) ==
    [filename |-> filename, error |-> error, ela_report |-> ela_report,
     comprehensive_analysis |-> comprehensive_analysis]

\* the arguments of the render_template_string that ends the request
RenderedPage(m) ==
    IF m.method # "POST"
    THEN Page("None", "None", UnknownReport("No analysis performed yet."), "None")
    ELSE IF m.save_error # ""
    THEN Page("None", "Failed to save uploaded file: " \o m.save_error, EmptyDict,
              "undefined")
    ELSE IF m.post_error # ""
    THEN Page("None", "Failed to send file to foto-forensics: " \o m.post_error,
              EmptyDict, "None")
    ELSE Page("photo.jpg", "None", ELAReport(m),
              IF m.analyze_status = 200 THEN "analysis" ELSE "None")

\* GET or POST /
upload_file(t) ==
    /\ ela_measure[t] # EmptyDict
    /\ page[t] = EmptyDict
    /\ page' = [page EXCEPT ![t] = RenderedPage(ela_measure[t])]
    /\ UNCHANGED <<serverVars, uploadVars, ela_measure>>

\* one request of flask-ui on each of the measures, the analysis server idle
InitFlaskUI ==
    /\ pc = [t \in Threads |-> "idle"]
    /\ image = [t \in Threads |-> EmptyDict]
    /\ results = [t \in Threads |-> EmptyDict]
    /\ stamp = [t \in Threads |-> -1]
    /\ dutch_decision = [t \in Threads |-> EmptyDict]
    /\ response = [t \in Threads |-> EmptyDict]
    /\ decision_log = <<>>
    /\ files = EmptyDict
    /\ clock = 0
    /\ requests = 0
    /\ entry_index = [t \in Threads |-> 0]
    /\ report = [t \in Threads |-> EmptyDict]
    /\ \E m \in ELAMeasures :
          ela_measure = [t \in Threads |-> IF t = 1 THEN m ELSE EmptyDict]
    /\ page = [t \in Threads |-> EmptyDict]
    /\ InitUpload

NextFlaskUI == upload_file(1)

SpecFlaskUI == InitFlaskUI /\ [][NextFlaskUI]_vars

(***************************************************************************)
(* foto-forensics: POST /upload.  upload_image saves the upload, opens it, *)
(* re-encodes it into the one file temp.jpg of the working directory,      *)
(* opens temp.jpg again (PIL reads the header and leaves the pixel data in *)
(* the file), and loads the pixels when it takes the difference.  The      *)
(* request threads of the server interleave between these file accesses.   *)
(***************************************************************************)
\* uploads: content and dimensions
UploadImages ==
    { [name |-> "a.jpg", content |-> "a", size |-> 1],
      [name |-> "b.jpg", content |-> "b", size |-> 1],
      [name |-> "c.jpg", content |-> "c", size |-> 2] }

\* im.save('temp.jpg', quality=95): the re-encoding of an image
Reencoded(i) == [of |-> i.content, size |-> i.size]

\* f.save(path); im = Image.open(path).convert('RGB')
OpenUpload(t, i) ==
    /\ upload_pc[t] \in {"idle", "done"}
    /\ im' = [im EXCEPT ![t] = i]
    /\ temp' = [temp EXCEPT ![t] = EmptyDict]
    /\ ela_response' = [ela_response EXCEPT ![t] = EmptyDict]
    /\ upload_pc' = [upload_pc EXCEPT ![t] = "opened"]
    /\ UNCHANGED <<serverVars, elaVars, temp_jpg>>

\* im.save('temp.jpg', quality=95)
SaveTemp(t) ==
    /\ upload_pc[t] = "opened"
    /\ temp_jpg' = Reencoded(im[t])
    /\ upload_pc' = [upload_pc EXCEPT ![t] = "saved"]
    /\ UNCHANGED <<serverVars, elaVars, im, temp, ela_response>>

\* temp = Image.open('temp.jpg'): the header of the file as it is now
OpenTemp(t) ==
    /\ upload_pc[t] = "saved"
    /\ temp' = [temp EXCEPT ![t] = [size |-> temp_jpg.size]]
    /\ upload_pc' = [upload_pc EXCEPT ![t] = "reopened"]
    /\ UNCHANGED <<serverVars, elaVars, im, temp_jpg, ela_response>>

\* the answer of the request: ImageChops.difference loads the pixels that
\* temp.jpg holds now and raises when the sizes do not match
DifferenceResponse(opened, header, file) ==
    IF header.size # opened.size \/ file.size # header.size
    THEN [status |-> 500, body |-> "Error processing opened: openeds do not match"]
    ELSE [status |-> 200,
          body |-> [ela_of |-> opened.name, original |-> opened.content, reencoded |-> file.of]]

\* diff = ImageChops.difference(im, temp) ... return send_file(ela_path)
Difference(t) ==
    /\ upload_pc[t] = "reopened"
    /\ ela_response' = [ela_response EXCEPT ![t] = DifferenceResponse(im[t], temp[t], temp_jpg)]
    /\ im' = [im EXCEPT ![t] = EmptyDict]
    /\ temp' = [temp EXCEPT ![t] = EmptyDict]
    /\ upload_pc' = [upload_pc EXCEPT ![t] = "done"]
    /\ UNCHANGED <<serverVars, elaVars, temp_jpg>>

\* the analysis and the front end at rest
InitUploads ==
    /\ pc = [t \in Threads |-> "idle"]
    /\ image = [t \in Threads |-> EmptyDict]
    /\ results = [t \in Threads |-> EmptyDict]
    /\ stamp = [t \in Threads |-> -1]
    /\ dutch_decision = [t \in Threads |-> EmptyDict]
    /\ response = [t \in Threads |-> EmptyDict]
    /\ decision_log = <<>>
    /\ files = EmptyDict
    /\ clock = 0
    /\ requests = 0
    /\ entry_index = [t \in Threads |-> 0]
    /\ report = [t \in Threads |-> EmptyDict]
    /\ InitELA
    /\ InitUpload

NextUploads ==
    \/ \E t \in Threads, i \in UploadImages : OpenUpload(t, i)
    \/ \E t \in Threads : SaveTemp(t)
    \/ \E t \in Threads : OpenTemp(t)
    \/ \E t \in Threads : Difference(t)

SpecUploads == InitUploads /\ [][NextUploads]_vars

(***************************************************************************)
(* Properties                                                              *)
(***************************************************************************)
\* thread t holds the input and the Verdict of a finished call
Decided(t) == pc[t] = "done" /\ entry_index[t] > 0

InputAI(t) == Get(results[t], "ai_analysis", EmptyDict)

InputAIConfidence(t) == Get(InputAI(t), "ai_confidence", 0)

InputAIIndicators(t) == Get(InputAI(t), "ai_indicators", <<>>)

\* a metadata indicator of the form the metadata analyzer gives an editing tool
ReportsEditingSoftware(t) ==
    LET ind == Get(Get(results[t], "metadata_analysis", EmptyDict), "suspicious_indicators", <<>>)
    IN  \E i \in 1..Len(ind) :
            /\ Len(ind[i]) >= Len(StrEditingDetected)
            /\ SubSeq(ind[i], 1, Len(StrEditingDetected)) = StrEditingDetected

InputCopyMove(t) ==
    Get(Get(results[t], "copy_move_analysis", EmptyDict), "copy_move_detected", FALSE)

\* the seven scores of the input, in the order of the documented weights
InputScores(t) ==
    << results[t].ai_analysis.ai_score,
       results[t].metadata_analysis.metadata_score,
       results[t].compression_analysis.compression_score,
       results[t].copy_move_analysis.copy_move_score,
       results[t].noise_analysis.noise_score,
       results[t].histogram_analysis.histogram_score,
       results[t].blockchain_analysis.blockchain_score >>

FraudFlags ==
    {"Professional editing software detected in metadata", "Copy-move manipulation detected"}

HasFraudFlag(v) == \E i \in 1..Len(v.critical_flags) : v.critical_flags[i] \in FraudFlags

\* C1: whenever ai_confidence >= 40 the Verdict is NON_AUTHENTIC with
\* confidence 95, no human review and critical_flags exactly
\* [AI_GENERATED_CONTENT], whatever the other analyzer records contain.
C1_AIOverride ==
    \A t \in Threads :
        Decided(t) /\ InputAIConfidence(t) >= 40 =>
            /\ dutch_decision[t].authenticity_result = "NON_AUTHENTIC"
            /\ dutch_decision[t].confidence_score = 95
            /\ dutch_decision[t].requires_human_review = FALSE
            /\ dutch_decision[t].critical_flags = <<"AI_GENERATED_CONTENT">>

C1_Witness ==
    \E t \in Threads :
        /\ Decided(t) /\ InputAIConfidence(t) >= 40
        /\ ReportsEditingSoftware(t) /\ InputCopyMove(t)
        /\ Len(InputAIIndicators(t)) >= 3
        /\ dutch_decision[t].critical_flags = <<"AI_GENERATED_CONTENT">>

\* C2 as stated: whenever a metadata indicator reports editing software or
\* copy-move is detected, the Verdict is NON_AUTHENTIC with human review
\* required and a fraud critical flag, for every input.
C2_Original ==
    \A t \in Threads :
        Decided(t) /\ (ReportsEditingSoftware(t) \/ InputCopyMove(t)) =>
            /\ dutch_decision[t].authenticity_result = "NON_AUTHENTIC"
            /\ dutch_decision[t].requires_human_review = TRUE
            /\ HasFraudFlag(dutch_decision[t])

\* C2 amended: the fraud override holds when ai_confidence < 40, also when
\* the weighted score is >= 75; when ai_confidence >= 40 the AI override
\* comes first, the Verdict needs no review and carries no fraud flag.
C2_FraudOverride ==
    \A t \in Threads :
        Decided(t) /\ (ReportsEditingSoftware(t) \/ InputCopyMove(t)) =>
            IF InputAIConfidence(t) < 40
            THEN /\ dutch_decision[t].authenticity_result = "NON_AUTHENTIC"
                 /\ dutch_decision[t].requires_human_review = TRUE
                 /\ HasFraudFlag(dutch_decision[t])
            ELSE /\ dutch_decision[t].authenticity_result = "NON_AUTHENTIC"
                 /\ dutch_decision[t].requires_human_review = FALSE
                 /\ ~HasFraudFlag(dutch_decision[t])

C2_Witness ==
    \E t \in Threads :
        /\ Decided(t) /\ ReportsEditingSoftware(t) /\ ~InputCopyMove(t)
        /\ InputAIConfidence(t) < 40
        /\ FGe(dutch_decision[t].weighted_score, FromInt(75))
        /\ dutch_decision[t].authenticity_result = "NON_AUTHENTIC"
        /\ dutch_decision[t].requires_human_review

\* the documented weights in hundredths
WeightPercent == <<35, 20, 15, 10, 10, 5, 5>>

\* 100 * sum of score_i * weight_i, in exact arithmetic
ExactSum100(sc) ==
    sc[1] * WeightPercent[1] + sc[2] * WeightPercent[2] + sc[3] * WeightPercent[3]
    + sc[4] * WeightPercent[4] + sc[5] * WeightPercent[5] + sc[6] * WeightPercent[6]
    + sc[7] * WeightPercent[7]

\* the sum of the seven products, added from left to right in binary64
FloatSum(sc) ==
    FAdd(FAdd(FAdd(FAdd(FAdd(FAdd(FAdd(FZero,
        FMulInt(sc[1], W035)), FMulInt(sc[2], W020)), FMulInt(sc[3], W015)),
        FMulInt(sc[4], W010)), FMulInt(sc[5], W010)), FMulInt(sc[6], W005)),
        FMulInt(sc[7], W005))

\* |x - s100 / 100| <= 2^-40
NearExact(x, s100) ==
    LET a == MulSmall(x, 100)
        b == <<0, 0, s100 * 8192>>
        d == IF FGe(a, b) THEN SubExact(a, b) ELSE SubExact(b, a)
    IN  Cmp(d, <<524288, 3, 0>>) <= 0

\* C3: with all seven records present, weighted_score is the sum of
\* score_i x weight_i for the weights 0.35, 0.20, 0.15, 0.10, 0.10, 0.05,
\* 0.05, which sum to 1.0: it is that sum as binary64 arithmetic computes
\* it, within 2^-40 of the exact sum; all scores 100 give 100, all 0 give 0.
C3_WeightedScore ==
    \A t \in Threads :
        Decided(t) =>
            LET sc == InputScores(t)
                ws == dutch_decision[t].weighted_score
            IN  /\ ws = FloatSum(sc)
                /\ NearExact(ws, ExactSum100(sc))
                /\ (\A i \in 1..7 : sc[i] = 100) => ws = FromInt(100)
                /\ (\A i \in 1..7 : sc[i] = 0) => ws = FZero
                /\ ExactSum100(<<1, 1, 1, 1, 1, 1, 1>>) = 100
                /\ FloatSum(<<1, 1, 1, 1, 1, 1, 1>>) = FOne

C3_Witness ==
    \E t \in Threads :
        /\ Decided(t)
        /\ InputScores(t) = <<46, 70, 89, 99, 86, 94, 47>>
        /\ dutch_decision[t].weighted_score # FromInt(69)
        /\ NearExact(dutch_decision[t].weighted_score, 6900)

\* neither override fires
ThresholdsReached(t) ==
    /\ Decided(t)
    /\ InputAIConfidence(t) < 40
    /\ ~ReportsEditingSoftware(t)
    /\ ~InputCopyMove(t)

\* the class the weighted score alone stands for
ClassOfScore(ws) ==
    IF FGe(ws, FromInt(75)) THEN "AUTHENTIC"
    ELSE IF FGe(ws, FromInt(50)) THEN "SUSPICIOUS"
    ELSE "NON_AUTHENTIC"

SuspiciousAI(t) ==
    Get(InputAI(t), "ai_detected", FALSE) \/ Len(InputAIIndicators(t)) >= 2

\* C4 as stated: whenever neither override fires the result is the class of
\* the weighted score alone.
C4_Original ==
    \A t \in Threads :
        ThresholdsReached(t) =>
            dutch_decision[t].authenticity_result
                = ClassOfScore(dutch_decision[t].weighted_score)

\* C4 amended: this holds when, besides, the AI evaluation is not
\* suspicious (ai_detected false and fewer than two AI indicators); when it
\* is suspicious a weighted score >= 75 gives SUSPICIOUS, not AUTHENTIC, and
\* 50 still separates SUSPICIOUS from NON_AUTHENTIC.
C4_Thresholds ==
    \A t \in Threads :
        ThresholdsReached(t) =>
            LET class == ClassOfScore(dutch_decision[t].weighted_score)
            IN  dutch_decision[t].authenticity_result
                    = IF SuspiciousAI(t) /\ class = "AUTHENTIC" THEN "SUSPICIOUS" ELSE class

C4_Witness ==
    \E t \in Threads :
        /\ ThresholdsReached(t) /\ ~SuspiciousAI(t)
        /\ dutch_decision[t].weighted_score = FromInt(75)
        /\ dutch_decision[t].authenticity_result = "AUTHENTIC"

\* the number of fraud suspicious flags plus the number of AI indicators
InputSuspicion(t) ==
    (IF Get(Get(results[t], "compression_analysis", EmptyDict), "estimated_quality", 100) < 60
     THEN 1 ELSE 0)
    + (IF Len(Get(Get(results[t], "noise_analysis", EmptyDict), "artificial_indicators", <<>>)) >= 2
       THEN 1 ELSE 0)
    + Len(InputAIIndicators(t))

\* C8: whenever the threshold classification is reached and the suspicious
\* flags plus the AI indicators number 3 or more, the Verdict requires human
\* review whatever its class, and its last reasoning line reports the count.
C8_AggregateSuspicion ==
    \A t \in Threads :
        ThresholdsReached(t) /\ InputSuspicion(t) >= 3 =>
            LET reasoning == dutch_decision[t].decision_reasoning
            IN  /\ dutch_decision[t].requires_human_review = TRUE
                /\ reasoning[Len(reasoning)]
                       = <<"Multiple suspicious indicators require expert review",
                           InputSuspicion(t)>>

C8_Witness ==
    \E t \in Threads :
        /\ ThresholdsReached(t) /\ InputSuspicion(t) = 3
        /\ dutch_decision[t].authenticity_result = "AUTHENTIC"
        /\ FGe(dutch_decision[t].weighted_score, FromInt(75))
        /\ dutch_decision[t].requires_human_review

\* a Verdict reached by the threshold classification
ByThresholds(t) ==
    /\ ThresholdsReached(t)
    /\ dutch_decision[t].critical_flags \in {<<>>, <<"SUSPICIOUS_AI_CONTENT">>}

\* the integer part of a float
IsFloorOf(k, x) == FGe(x, FromInt(k)) /\ FLt(x, FromInt(k + 1))

\* C9 as stated: the confidence is min(95, score), score, max(10, 100 - score)
\* of the weighted score itself.
C9_Original ==
    \A t \in Threads :
        ByThresholds(t) =>
            LET ws   == dutch_decision[t].weighted_score
                conf == FromInt(dutch_decision[t].confidence_score)
                rest == FSub(FromInt(100), ws)
            IN  CASE dutch_decision[t].authenticity_result = "AUTHENTIC" ->
                        conf = IF FGe(ws, FromInt(95)) THEN FromInt(95) ELSE ws
                  [] dutch_decision[t].authenticity_result = "SUSPICIOUS" ->
                        conf = ws
                  [] OTHER ->
                        conf = IF FGe(FromInt(10), rest) THEN FromInt(10) ELSE rest

\* C9 amended: the confidence is an integer, min(95, int(score)),
\* int(score) and max(10, int(100 - score)) with int() truncating the float;
\* every Verdict has its confidence in [0,100].
C9_Confidence ==
    \A t \in Threads :
        Decided(t) =>
            /\ dutch_decision[t].confidence_score \in 0..100
            /\ ByThresholds(t) =>
                LET ws   == dutch_decision[t].weighted_score
                    conf == dutch_decision[t].confidence_score
                    rest == FSub(FromInt(100), ws)
                IN  CASE dutch_decision[t].authenticity_result = "AUTHENTIC" ->
                            IF FGe(ws, FromInt(95)) THEN conf = 95 ELSE IsFloorOf(conf, ws)
                      [] dutch_decision[t].authenticity_result = "SUSPICIOUS" ->
                            IsFloorOf(conf, ws)
                      [] OTHER ->
                            IF FLt(rest, FromInt(10)) THEN conf = 10 ELSE IsFloorOf(conf, rest)

C9_Witness ==
    \E t \in Threads :
        /\ ByThresholds(t)
        /\ dutch_decision[t].authenticity_result = "SUSPICIOUS"
        /\ dutch_decision[t].confidence_score = 62
        /\ dutch_decision[t].weighted_score # FromInt(62)

\* a step in which a call of determine_authenticity returns
Returns(t) == pc[t] = "deciding" /\ pc'[t] = "done"

\* a step in which thread t answers a read of the audit trail
ReadsTrail(t) ==
    /\ response'[t] # response[t]
    /\ "body" \in DOMAIN response'[t]
    /\ "audit_trail" \in DOMAIN response'[t].body

ScoreKeys ==
    { <<"ai_analysis", "ai_score">>, <<"metadata_analysis", "metadata_score">>,
      <<"compression_analysis", "compression_score">>,
      <<"copy_move_analysis", "copy_move_score">>, <<"noise_analysis", "noise_score">>,
      <<"histogram_analysis", "histogram_score">>,
      <<"blockchain_analysis", "blockchain_score">> }

\* the thread's results are the records the analyzers returned for its image
FromPipeline(t) == image[t] # EmptyDict /\ results[t] # EmptyDict

\* C6: every record the seven analyzers return, on the success path and on
\* the failure path alike, has its score field with a value in [0,100], and
\* the weighted score of the engine over these records is in [0,100].
C6_ScoresInRange ==
    \A t \in Threads :
        FromPipeline(t) =>
            /\ \A k \in ScoreKeys :
                   /\ k[1] \in DOMAIN results[t]
                   /\ k[2] \in DOMAIN results[t][k[1]]
                   /\ results[t][k[1]][k[2]] \in 0..100
            /\ Decided(t) =>
                   /\ FGe(dutch_decision[t].weighted_score, FZero)
                   /\ FGe(FromInt(100), dutch_decision[t].weighted_score)

C6_Witness ==
    \E t \in Threads :
        /\ FromPipeline(t) /\ Decided(t)
        /\ image[t] = FailingImage
        /\ results[t].copy_move_analysis.copy_move_score = 50
        /\ results[t].noise_analysis.noise_score = 0

\* a blockchain record without the fields named
WithoutFields(blockchain, fields) ==
    [blockchain EXCEPT !.provenance_record =
        [k \in DOMAIN blockchain.provenance_record \ fields |->
            blockchain.provenance_record[k]]]

\* the analyzer records without the fields named of the provenance record
RecordsWithout(ar, fields) ==
    [ar EXCEPT !.blockchain_analysis = WithoutFields(ar.blockchain_analysis, fields)]

\* the Verdict without its timestamp
VerdictWithoutTimestamp(v) == [k \in DOMAIN v \ {"timestamp"} |-> v[k]]

\* two finished runs of the pipeline on the same bytes
SameInputTwice(t, u) ==
    /\ t # u
    /\ FromPipeline(t) /\ FromPipeline(u)
    /\ Decided(t) /\ Decided(u)
    /\ image[t] = image[u]

\* C7 as stated: two runs on byte-identical input give identical analyzer
\* records and an identical Verdict in every field other than the timestamp
\* fields.
C7_Original ==
    \A t, u \in Threads :
        SameInputTwice(t, u) =>
            /\ RecordsWithout(results[t], {"timestamp"})
                   = RecordsWithout(results[u], {"timestamp"})
            /\ VerdictWithoutTimestamp(dutch_decision[t])
                   = VerdictWithoutTimestamp(dutch_decision[u])

\* C7 amended: ... in every field other than the timestamp fields and the
\* provenance record's verification_hash, which is a digest of the record
\* with its timestamp; the second run's result does not depend on the audit
\* entries left by the first.
C7_Idempotent ==
    \A t, u \in Threads :
        SameInputTwice(t, u) =>
            /\ RecordsWithout(results[t], {"timestamp", "verification_hash"})
                   = RecordsWithout(results[u], {"timestamp", "verification_hash"})
            /\ VerdictWithoutTimestamp(dutch_decision[t])
                   = VerdictWithoutTimestamp(dutch_decision[u])

C7_Witness ==
    \E t, u \in Threads :
        /\ SameInputTwice(t, u)
        /\ entry_index[t] = 1 /\ entry_index[u] = 2
        /\ image[t].file.error = ""
        /\ results[t].blockchain_analysis.provenance_record.timestamp
               # results[u].blockchain_analysis.provenance_record.timestamp
        /\ dutch_decision[t].timestamp # dutch_decision[u].timestamp

\* a number of the audit entry as a float
AsFloat(x) == IF x \in Int THEN FromInt(x) ELSE x

\* C10: each audit entry is a faithful summary of the Verdict the same call
\* returned: decision, confidence, critical_flags, human_review_required,
\* weighted_score and timestamp equal the Verdict's authenticity_result,
\* confidence_score, critical_flags, requires_human_review, weighted_score
\* and timestamp.
C10_FaithfulEntry ==
    \A t \in Threads :
        Decided(t) =>
            LET entry == decision_log[entry_index[t]]
                v     == dutch_decision[t]
            IN  /\ entry.decision = v.authenticity_result
                /\ entry.confidence = v.confidence_score
                /\ entry.critical_flags = v.critical_flags
                /\ entry.human_review_required = v.requires_human_review
                /\ entry.timestamp = v.timestamp
                /\ AsFloat(entry.weighted_score) = v.weighted_score

\* the fields of the entry other than weighted_score
C10_OtherFields ==
    \A t \in Threads :
        Decided(t) =>
            LET entry == decision_log[entry_index[t]]
                v     == dutch_decision[t]
            IN  /\ entry.decision = v.authenticity_result
                /\ entry.confidence = v.confidence_score
                /\ entry.critical_flags = v.critical_flags
                /\ entry.human_review_required = v.requires_human_review
                /\ entry.timestamp = v.timestamp
                /\ entry.weighted_score = 0

\* the keys of all_analysis_results
AnalysisKeys ==
    {"metadata_analysis", "compression_analysis", "copy_move_analysis", "noise_analysis",
     "histogram_analysis", "blockchain_analysis", "ai_analysis"}

\* no analyzer of the pipeline raised a flag on the thread's image
NoFlags(t) ==
    /\ FromPipeline(t)
    /\ results[t].metadata_analysis.suspicious_indicators = <<>>
    /\ results[t].compression_analysis.recompression_indicators = <<>>
    /\ results[t].noise_analysis.artificial_indicators = <<>>
    /\ results[t].histogram_analysis.histogram_indicators = <<>>
    /\ results[t].ai_analysis.ai_indicators = <<>>
    /\ results[t].ai_analysis.ai_confidence = 0
    /\ results[t].copy_move_analysis.copy_move_detected = FALSE
    /\ results[t].copy_move_analysis.suspicious_regions = 0
    /\ "error" \notin DOMAIN results[t].blockchain_analysis.provenance_record

\* C11: if no analyzer raises a flag (every indicator list empty,
\* ai_confidence 0, no copy-move and zero suspicious regions, provenance
\* succeeded) the Verdict is AUTHENTIC with weighted_score >= 75, no critical
\* flags and no human review; the decision's input is the seven analyzer
\* records and nothing else, so no ELA result is part of it.
C11_CleanImage ==
    \A t \in Threads :
        Decided(t) /\ NoFlags(t) =>
            /\ dutch_decision[t].authenticity_result = "AUTHENTIC"
            /\ FGe(dutch_decision[t].weighted_score, FromInt(75))
            /\ dutch_decision[t].critical_flags = <<>>
            /\ dutch_decision[t].requires_human_review = FALSE
            /\ DOMAIN results[t] = AnalysisKeys

C11_Witness ==
    \E t \in Threads :
        /\ Decided(t) /\ NoFlags(t)
        /\ results[t].copy_move_analysis.copy_move_score = 50
        /\ dutch_decision[t].weighted_score = FromInt(95)
        /\ dutch_decision[t].authenticity_result = "AUTHENTIC"

\* a step in which thread t accepts a submission to /analyze
Submits(t) ==
    /\ Resting(t)
    /\ requests' = requests + 1
    /\ image'[t] # EmptyDict
    /\ <<pc'[t], response'[t], image'[t]>> # <<pc[t], response[t], image[t]>>

\* the fields of a Verdict
VerdictFields ==
    {"authenticity_result", "confidence_score", "weighted_score", "decision_reasoning",
     "critical_flags", "compliance_status", "requires_human_review", "timestamp",
     "rule_version"}

\* v is a complete Verdict with its reasoning
CompleteVerdict(v) ==
    /\ DOMAIN v = VerdictFields
    /\ v.authenticity_result \in {"AUTHENTIC", "SUSPICIOUS", "NON_AUTHENTIC"}
    /\ v.confidence_score \in 0..100
    /\ v.decision_reasoning # <<>>
    /\ v.requires_human_review \in BOOLEAN

\* C12: whichever subset of the seven analyzers fails internally, a
\* submission to analyze_image obtains all seven records, each with its
\* score; the records are not computed again (no retry), the request goes on
\* to determine_authenticity, which has a complete Verdict for these records,
\* is invoked once (one audit entry) and returns a complete Verdict with a
\* non-empty decision_reasoning, sent with status 200.
C12_FailuresDoNotBlock ==
    [][ \A t \in Threads :
            /\ Submits(t) =>
                   /\ pc'[t] = "analyzed"
                   /\ DOMAIN results'[t] = AnalysisKeys
                   /\ \A k \in ScoreKeys : k[2] \in DOMAIN results'[t][k[1]]
            /\ pc[t] \in {"analyzed", "deciding"} =>
                   /\ results'[t] = results[t]
                   /\ pc[t] = "analyzed" => ENABLED StartDecision(t)
                   /\ pc[t] = "deciding" =>
                          CompleteVerdict(
                              determine_authenticity(decision_log, results[t], stamp[t]).verdict)
                   /\ pc'[t] \in (IF pc[t] = "analyzed" THEN {"analyzed", "deciding"}
                                  ELSE {"deciding", "done"})
            /\ Returns(t) =>
                   /\ Len(decision_log') = Len(decision_log) + 1
                   /\ CompleteVerdict(dutch_decision'[t])
                   /\ response'[t].status = 200
      ]_vars

\* the analyzers that failed on the thread's image
FailedAnalyzers(t) == {k \in DOMAIN image[t] : AnalyzerFails(image[t], k)}

C12_Witness ==
    \E t \in Threads :
        /\ Decided(t) /\ FromPipeline(t)
        /\ FailedAnalyzers(t) = {"exif", "noise", "file"}
        /\ CompleteVerdict(dutch_decision[t])
        /\ Len(decision_log) = 1
        /\ response[t].status = 200

\* neither PIL nor OpenCV can decode the file saved for img
Undecodable(img) ==
    \A k \in {"exif", "compression", "copy_move", "noise", "histogram", "ai"} :
        AnalyzerFails(img, k)

\* C13: a submission whose file cannot be decoded as an image at all ends in
\* a single top-level failure: analyze_image answers with an error, and no
\* Verdict is produced for it.
C13_UndecodableFails ==
    \A t \in Threads :
        pc[t] = "done" /\ image[t] # EmptyDict /\ Undecodable(image[t]) =>
            /\ response[t].status = 500
            /\ dutch_decision[t] = EmptyDict
            /\ entry_index[t] = 0

\* a step in which thread t's export_compliance_report ends
ExportEnds(t) == pc[t] = "exporting" /\ pc'[t] = "done"

\* C14: an export that succeeds leaves a report whose decisions field is the
\* entire audit trail in order, whose total_decisions is the length of that
\* trail and which lists the four compliance standards; the export leaves
\* the audit trail unchanged; when the report cannot be written the caller
\* gets the failure and no file name.
C14_ExportedReport ==
    [][ \A t \in Threads :
            ExportEnds(t) =>
                /\ decision_log' = decision_log
                /\ response'[t].status = 200 =>
                       /\ response'[t].body.filename \in DOMAIN files'
                       /\ \E r \in {files'[response'[t].body.filename]} :
                              /\ r.decisions = decision_log
                              /\ r.total_decisions = Len(r.decisions)
                              /\ r.compliance_standards = COMPLIANCE_STANDARDS
                /\ response'[t].status # 200 =>
                       /\ "filename" \notin DOMAIN response'[t].body
                       /\ files' = files
      ]_vars

\* thread t is between its first and its last read of the audit log
ReadingLog(t) == pc[t] = "exporting"

\* each returning call leaves one new entry, its own, and keeps the others
OneEntryPerCall ==
    \A t \in Threads :
        Returns(t) =>
            /\ Len(decision_log') = Len(decision_log) + 1
            /\ SubSeq(decision_log', 1, Len(decision_log)) = decision_log
            /\ entry_index'[t] = Len(decision_log')
            /\ \A u \in Threads \ {t} :
                   pc'[u] = "done" /\ entry_index'[u] > 0 => entry_index'[u] < entry_index'[t]

\* C15: with submissions processed concurrently against the shared engine,
\* access to the audit log is mutually exclusive (no call appends to the log
\* while another thread is in the middle of reading it), and every call of
\* determine_authenticity that completes leaves exactly one new entry, its
\* own, none lost or duplicated.
C15_SerializedLog ==
    [][ /\ OneEntryPerCall
        /\ \A t, u \in Threads :
               t # u /\ ReadingLog(u) => ~Returns(t)
      ]_vars

\* the part of C15 about the entries alone
C15_EntriesOnly == [][OneEntryPerCall]_vars

\* C16: every Verdict whose authenticity_result is SUSPICIOUS has
\* requires_human_review true and compliance_status.human_oversight_required
\* true; in every Verdict human_oversight_required equals
\* requires_human_review.
C16_SuspiciousNeedsReview ==
    \A t \in Threads :
        Decided(t) =>
            /\ dutch_decision[t].compliance_status.human_oversight_required
                   = dutch_decision[t].requires_human_review
            /\ dutch_decision[t].authenticity_result = "SUSPICIOUS" =>
                   /\ dutch_decision[t].requires_human_review = TRUE
                   /\ dutch_decision[t].compliance_status.human_oversight_required = TRUE

C16_Witness ==
    \E t \in Threads :
        /\ Decided(t)
        /\ dutch_decision[t].authenticity_result = "SUSPICIOUS"
        /\ ~SuspiciousAI(t)
        /\ InputSuspicion(t) < 3
        /\ dutch_decision[t].compliance_status.human_oversight_required

\* some metadata indicator contains 'editing software', whatever its case
EditingSoftwareCondition(t) ==
    \E i \in 1..Len(Get(Get(results[t], "metadata_analysis", EmptyDict),
                        "suspicious_indicators", <<>>)) :
        Contains(StrEditingSoftware,
                 StrLower(results[t].metadata_analysis.suspicious_indicators[i]))

\* C17: when ai_confidence < 40 and at least one fraud critical condition
\* holds, the Verdict is NON_AUTHENTIC with confidence 90 and human review
\* required, and critical_flags has one entry per triggered condition, the
\* editing-software flag before the copy-move flag; this for every weighted
\* score and every number of suspicious flags.
C17_FraudFlags ==
    \A t \in Threads :
        /\ Decided(t) /\ InputAIConfidence(t) < 40
        /\ (EditingSoftwareCondition(t) \/ InputCopyMove(t))
        =>
            /\ dutch_decision[t].authenticity_result = "NON_AUTHENTIC"
            /\ dutch_decision[t].confidence_score = 90
            /\ dutch_decision[t].requires_human_review = TRUE
            /\ dutch_decision[t].critical_flags
                   = (IF EditingSoftwareCondition(t)
                      THEN <<"Professional editing software detected in metadata">>
                      ELSE <<>>)
                     \o (IF InputCopyMove(t)
                         THEN <<"Copy-move manipulation detected">> ELSE <<>>)

C17_Witness ==
    \E t \in Threads :
        /\ Decided(t) /\ InputAIConfidence(t) < 40
        /\ EditingSoftwareCondition(t) /\ InputCopyMove(t)
        /\ SuspiciousAI(t) /\ InputSuspicion(t) >= 3
        /\ dutch_decision[t].weighted_score = FromInt(100)
        /\ Len(dutch_decision[t].critical_flags) = 2
        /\ dutch_decision[t].confidence_score = 90

\* C18: when ai_confidence < 40 but ai_detected is true or two or more AI
\* indicators are present, the rule chain goes on: a fraud critical
\* condition still gives the fraud override, otherwise the Verdict carries
\* SUSPICIOUS_AI_CONTENT and the class the thresholds give a flagged image
\* (SUSPICIOUS from 50, NON_AUTHENTIC below); in both cases
\* requires_human_review is true.
C18_SuspiciousAI ==
    \A t \in Threads :
        Decided(t) /\ InputAIConfidence(t) < 40 /\ SuspiciousAI(t) =>
            /\ dutch_decision[t].requires_human_review = TRUE
            /\ IF EditingSoftwareCondition(t) \/ InputCopyMove(t)
               THEN /\ dutch_decision[t].authenticity_result = "NON_AUTHENTIC"
                    /\ dutch_decision[t].confidence_score = 90
                    /\ HasFraudFlag(dutch_decision[t])
               ELSE /\ dutch_decision[t].critical_flags = <<"SUSPICIOUS_AI_CONTENT">>
                    /\ dutch_decision[t].authenticity_result
                           = IF FGe(dutch_decision[t].weighted_score, FromInt(50))
                             THEN "SUSPICIOUS" ELSE "NON_AUTHENTIC"
                    /\ Len(dutch_decision[t].decision_reasoning) >= 2

C18_Witness ==
    \E t \in Threads :
        /\ Decided(t) /\ InputAIConfidence(t) < 40
        /\ results[t].ai_analysis.ai_detected /\ Len(InputAIIndicators(t)) < 2
        /\ ~EditingSoftwareCondition(t) /\ ~InputCopyMove(t)
        /\ InputSuspicion(t) < 3
        /\ FLt(dutch_decision[t].weighted_score, FromInt(50))
        /\ dutch_decision[t].authenticity_result = "NON_AUTHENTIC"
        /\ dutch_decision[t].requires_human_review

\* C19: a record detect_ai_generated_images returns on its success path
\* with n indicators has ai_confidence = min(100, 20 n), ai_detected true
\* exactly when n >= 2 and ai_score = 100 - ai_confidence; on a processing
\* failure the record has ai_score 50, ai_confidence 0, ai_detected false
\* and the error text as its only indicator.
C19_AIRecord ==
    \A t \in Threads :
        FromPipeline(t) =>
            \E r \in {results[t].ai_analysis} :
                IF image[t].ai.error = ""
                THEN /\ r.ai_confidence
                            = IF 20 * Len(r.ai_indicators) > 100 THEN 100
                              ELSE 20 * Len(r.ai_indicators)
                     /\ r.ai_detected = (Len(r.ai_indicators) >= 2)
                     /\ r.ai_score = 100 - r.ai_confidence
                ELSE /\ r.ai_score = 50
                     /\ r.ai_confidence = 0
                     /\ r.ai_detected = FALSE
                     /\ r.ai_indicators = <<"Error in AI detection: " \o image[t].ai.error>>

C19_Witness ==
    \E t \in Threads :
        /\ FromPipeline(t)
        /\ image[t].ai.error = ""
        /\ Len(results[t].ai_analysis.ai_indicators) = 7
        /\ results[t].ai_analysis.ai_confidence = 100
        /\ results[t].ai_analysis.ai_score = 0

\* the record each decoding analyzer contributes and the text its failure
\* record is to carry
FailureRecords ==
    [exif        |-> [record |-> "metadata_analysis", score |-> "metadata_score"],
     compression |-> [record |-> "compression_analysis", score |-> "compression_score"],
     copy_move   |-> [record |-> "copy_move_analysis", score |-> "copy_move_score"],
     noise       |-> [record |-> "noise_analysis", score |-> "noise_score"],
     histogram   |-> [record |-> "histogram_analysis", score |-> "histogram_score"],
     ai          |-> [record |-> "ai_analysis", score |-> "ai_score"]]

ErrorText(k, err) ==
    CASE k = "exif"        -> StrErrorMetadata \o err
      [] k = "compression" -> "Error analyzing compression: " \o err
      [] k = "copy_move"   -> err
      [] k = "noise"       -> "Error analyzing noise: " \o err
      [] k = "histogram"   -> "Error analyzing histogram: " \o err
      [] k = "ai"          -> "Error in AI detection: " \o err

\* the fields of the analyzer records that list indicators
IndicatorFields ==
    {"suspicious_indicators", "recompression_indicators", "artificial_indicators",
     "histogram_indicators", "ai_indicators", "indicators"}

\* the failure record of analyzer k: a neutral or zero score and the error
\* text as the sole indicator
IsFailureRecord(t, k) ==
    \E rec \in {results[t][FailureRecords[k].record]} :
        /\ rec[FailureRecords[k].score] \in {0, 50}
        /\ \E f \in DOMAIN rec \cap IndicatorFields :
               rec[f] = <<ErrorText(k, image[t][k].error)>>

\* C20: when one of the analyzers metadata, compression, copy-move, noise,
\* histogram, AI hits a decode or processing error, the record it returns
\* has a neutral or zero score and the error text as its sole indicator, and
\* the other analyzers still run: all seven records are there.
C20_FailureRecord ==
    \A t \in Threads :
        FromPipeline(t) =>
            \A k \in DOMAIN FailureRecords :
                AnalyzerFails(image[t], k) =>
                    /\ IsFailureRecord(t, k)
                    /\ DOMAIN results[t] = AnalysisKeys

\* C20 for the analyzers other than copy-move, and the copy-move failure
\* record as it is
C20_OtherAnalyzers ==
    \A t \in Threads :
        FromPipeline(t) =>
            \A k \in DOMAIN FailureRecords :
                AnalyzerFails(image[t], k) =>
                    /\ DOMAIN results[t] = AnalysisKeys
                    /\ k # "copy_move" => IsFailureRecord(t, k)
                    /\ k = "copy_move" =>
                           results[t].copy_move_analysis
                               = [copy_move_detected |-> FALSE, suspicious_regions |-> 0,
                                  confidence |-> 0, copy_move_score |-> 50]

\* the tags PIL read from the thread's file
InputTags(t) == image[t].exif.tags

\* the number of the six expected camera tags the file lacks
MissingCount(t) ==
    Cardinality({i \in 1..Len(camera_tags) : camera_tags[i].tag \notin DOMAIN InputTags(t)})

\* the software tag names an editing tool
EditingSignature(t) ==
    /\ "Software" \in DOMAIN InputTags(t)
    /\ \E i \in 1..Len(editing_software) :
           Contains(editing_software[i], StrLower(InputTags(t).Software))

\* the two timestamp tags are there and differ
TimestampMismatch(t) ==
    /\ "DateTime" \in DOMAIN InputTags(t)
    /\ "DateTimeOriginal" \in DOMAIN InputTags(t)
    /\ InputTags(t).DateTime # InputTags(t).DateTimeOriginal

\* C21 as stated: for an image with no capture metadata at all, or whose
\* metadata cannot be read, there is no suspicious indicator and
\* metadata_score is 100; only an editing-tool signature or a mismatch of
\* the two timestamp tags lowers the score.
C21_Original ==
    \A t \in Threads :
        FromPipeline(t) =>
            /\ image[t].exif.error # <<>> \/ InputTags(t) = EmptyDict =>
                   /\ results[t].metadata_analysis.suspicious_indicators = <<>>
                   /\ results[t].metadata_analysis.metadata_score = 100
            /\ results[t].metadata_analysis.metadata_score < 100 =>
                   /\ image[t].exif.error = <<>>
                   /\ EditingSignature(t) \/ TimestampMismatch(t)

\* C21 amended: missing metadata is not suspicious while at most three of
\* the six camera tags are missing; with more than three missing (an image
\* with no metadata at all among them) the analyzer records the
\* missing-metadata indicator, and metadata_score is 100 minus 20 for each
\* of: editing-tool signature, more than three camera tags missing,
\* timestamp mismatch; metadata that cannot be read gives the error text as
\* the only indicator and metadata_score 0.
C21_MetadataScore ==
    \A t \in Threads :
        FromPipeline(t) =>
            \E r \in {results[t].metadata_analysis} :
                IF image[t].exif.error # <<>>
                THEN /\ r.suspicious_indicators = <<StrErrorMetadata \o image[t].exif.error>>
                     /\ r.metadata_score = 0
                ELSE /\ r.metadata_score
                            = 100 - 20 * ((IF EditingSignature(t) THEN 1 ELSE 0)
                                          + (IF MissingCount(t) > 3 THEN 1 ELSE 0)
                                          + (IF TimestampMismatch(t) THEN 1 ELSE 0))
                     /\ Len(r.suspicious_indicators) * 20 = 100 - r.metadata_score
                     /\ (MissingCount(t) <= 3 /\ ~EditingSignature(t) /\ ~TimestampMismatch(t))
                            => r.suspicious_indicators = <<>>

C21_Witness ==
    \E t \in Threads :
        /\ FromPipeline(t)
        /\ image[t].exif.error = <<>>
        /\ InputTags(t) = EmptyDict
        /\ Len(results[t].metadata_analysis.suspicious_indicators) = 1
        /\ results[t].metadata_analysis.metadata_score = 80

\* C22: for detect_copy_move with m suspicious matches, suspicious_regions
\* is m div 5, copy_move_detected is true exactly when suspicious_regions > 3,
\* confidence is min(100, 20 x suspicious_regions) and copy_move_score is
\* 100 - confidence, so a detection has copy_move_score <= 20; with fewer
\* than 10 descriptors (or none) the record is copy_move_score 50 with
\* copy_move_detected false.
C22_CopyMoveRecord ==
    \A t \in Threads :
        FromPipeline(t) /\ image[t].copy_move.error = "" =>
            \E r \in {results[t].copy_move_analysis} :
                IF image[t].copy_move.descriptors < 10
                THEN /\ r.copy_move_score = 50
                     /\ r.copy_move_detected = FALSE
                ELSE /\ r.suspicious_regions = image[t].copy_move.suspicious_matches \div 5
                     /\ r.copy_move_detected = (r.suspicious_regions > 3)
                     /\ r.confidence = IF 20 * r.suspicious_regions > 100 THEN 100
                                       ELSE 20 * r.suspicious_regions
                     /\ r.copy_move_score = 100 - r.confidence
                     /\ r.copy_move_detected => r.copy_move_score <= 20

C22_Witness ==
    \E t \in Threads :
        /\ FromPipeline(t) /\ image[t].copy_move.error = ""
        /\ image[t].copy_move.suspicious_matches = 20
        /\ results[t].copy_move_analysis.copy_move_detected
        /\ results[t].copy_move_analysis.copy_move_score = 20

\* a provenance record without its verification_hash
WithoutHash(rec) == [k \in DOMAIN rec \ {"verification_hash"} |-> rec[k]]

\* the verification hash re-derived from a record
Rederived(rec) == Sha256(JsonDumpsSorted(WithoutHash(rec)))

\* the records that differ from rec in one of image_hash, timestamp, file_size
Tampered(rec) ==
    { [rec EXCEPT !.image_hash = Sha256("bytes-B")],
      [rec EXCEPT !.timestamp = rec.timestamp + 1],
      [rec EXCEPT !.file_size = rec.file_size + 1] }

\* C23: in every provenance record create_blockchain_timestamp returns on
\* success, verification_hash is the hash of the sorted-key serialization
\* of the record without verification_hash, so the hash re-derived after a
\* change of image_hash, timestamp or file_size does not match; the score is
\* 100 on success, and 0 with the error recorded when reading fails.
C23_VerificationHash ==
    \A t \in Threads :
        FromPipeline(t) =>
            \E b \in {results[t].blockchain_analysis} :
                IF image[t].file.error = ""
                THEN /\ b.blockchain_score = 100
                     /\ b.provenance_record.verification_hash = Rederived(b.provenance_record)
                     /\ \A rec \in Tampered(b.provenance_record) :
                            Rederived(rec) # b.provenance_record.verification_hash
                ELSE /\ b.blockchain_score = 0
                     /\ b.provenance_record = [error |-> image[t].file.error]

C23_Witness ==
    \E t \in Threads :
        /\ FromPipeline(t) /\ image[t].file.error = ""
        /\ results[t].blockchain_analysis.blockchain_score = 100
        /\ results[t].blockchain_analysis.provenance_record.file_size = 2048
        /\ Rederived([results[t].blockchain_analysis.provenance_record
                         EXCEPT !.file_size = 2049])
               # results[t].blockchain_analysis.provenance_record.verification_hash


\* a thread whose POST reached the analysis of an ELA image
ELAAnalyzed(t) ==
    /\ page[t] # EmptyDict
    /\ ela_measure[t].method = "POST"
    /\ ela_measure[t].save_error = ""
    /\ ela_measure[t].post_error = ""
    /\ ela_measure[t].exists

\* C24: the ELA report is "Manipulated" exactly when the mean of the ELA image
\* is above 15 and "Authentic" otherwise; its certainty lies in 0..100 and is
\* at least 30 for an "Authentic" report; an error while the ELA image is
\* decoded or processed gives "Unknown" with certainty 0 and the error
\* message as description, on a page that is rendered with the file name
\* and without an error banner.
C24_ELAReport ==
    \A t \in Threads :
        ELAAnalyzed(t) =>
            /\ page[t].filename = "photo.jpg"
            /\ page[t].error = "None"
            /\ page[t].ela_report.certainty \in 0..100
            /\ IF ela_measure[t].error # ""
               THEN /\ page[t].ela_report.result = "Unknown"
                    /\ page[t].ela_report.certainty = 0
                    /\ page[t].ela_report.description
                         = "Error analyzing ELA image: " \o ela_measure[t].error
               ELSE /\ page[t].ela_report.result
                         = (IF ela_measure[t].sum > 15 * ela_measure[t].size
                            THEN "Manipulated" ELSE "Authentic")
                    /\ (page[t].ela_report.result = "Authentic")
                           => page[t].ela_report.certainty >= 30

\* an ELA image whose mean is exactly 15 is reported authentic
C24_Witness ==
    \E t \in Threads :
        /\ ELAAnalyzed(t)
        /\ ela_measure[t].error = ""
        /\ ela_measure[t].sum = 15 * ela_measure[t].size
        /\ page[t].ela_report.result = "Authentic"

\* a processing error is reported as Unknown
C24_ErrorWitness ==
    \E t \in Threads :
        /\ ELAAnalyzed(t)
        /\ ela_measure[t].error # ""
        /\ page[t].ela_report.result = "Unknown"

\* C25: on every record detect_ai_generated_images returns the engine never
\* takes the suspicious-AI branch: ai_detected = true comes with
\* ai_confidence >= 40 and ends in the AI override, fewer than two indicators
\* come with ai_detected = false, and no Verdict of the full pipeline has
\* SUSPICIOUS_AI_CONTENT among its critical_flags.
C25_NoSuspiciousAIBranch ==
    \A t \in Threads :
        Decided(t) /\ FromPipeline(t) =>
            /\ ~(InputAIConfidence(t) < 40 /\ SuspiciousAI(t))
            /\ \A i \in 1..Len(dutch_decision[t].critical_flags) :
                   dutch_decision[t].critical_flags[i] # "SUSPICIOUS_AI_CONTENT"
            /\ results[t].ai_analysis.ai_detected =>
                   /\ dutch_decision[t].critical_flags = <<"AI_GENERATED_CONTENT">>
                   /\ dutch_decision[t].authenticity_result = "NON_AUTHENTIC"
                   /\ dutch_decision[t].confidence_score = 95

\* an image with exactly two AI indicators, decided by the AI override
C25_Witness ==
    \E t \in Threads :
        /\ Decided(t) /\ FromPipeline(t)
        /\ results[t].ai_analysis.ai_detected
        /\ Len(results[t].ai_analysis.ai_indicators) = 2
        /\ dutch_decision[t].critical_flags = <<"AI_GENERATED_CONTENT">>

\* an image with one AI indicator, which does not count as suspicious
C25_SingleIndicator ==
    \E t \in Threads :
        /\ Decided(t) /\ FromPipeline(t)
        /\ Len(results[t].ai_analysis.ai_indicators) = 1
        /\ ~results[t].ai_analysis.ai_detected

\* C26: a Verdict is AUTHENTIC only if its critical_flags are empty, its
\* weighted_score is at least 75, ai_confidence is below 40, ai_detected is
\* false with fewer than two AI indicators, no metadata indicator names
\* editing software, and copy_move_detected is false.
C26_AuthenticOnlyIf ==
    \A t \in Threads :
        (Decided(t) /\ dutch_decision[t].authenticity_result = "AUTHENTIC") =>
            /\ dutch_decision[t].critical_flags = <<>>
            /\ FGe(dutch_decision[t].weighted_score, FromInt(75))
            /\ InputAIConfidence(t) < 40
            /\ ~Get(InputAI(t), "ai_detected", FALSE)
            /\ Len(InputAIIndicators(t)) < 2
            /\ ~EditingSoftwareCondition(t)
            /\ ~ReportsEditingSoftware(t)
            /\ ~InputCopyMove(t)

\* an AUTHENTIC Verdict on an input at the edge of the AI rules: confidence
\* 39 and one indicator
C26_Witness ==
    \E t \in Threads :
        /\ Decided(t)
        /\ dutch_decision[t].authenticity_result = "AUTHENTIC"
        /\ InputAIConfidence(t) = 39
        /\ Len(InputAIIndicators(t)) = 1

\* the positions in ANALYSIS_WEIGHTS of the records the input has
PresentWeights(t) ==
    {i \in 1..Len(ANALYSIS_WEIGHTS) : ANALYSIS_WEIGHTS[i].analysis \in DOMAIN results[t]}

\* the score a present record counts with: 0 when the field is missing
CountedScore(t, i) ==
    IF ANALYSIS_WEIGHTS[i].key \in DOMAIN results[t][ANALYSIS_WEIGHTS[i].analysis]
    THEN results[t][ANALYSIS_WEIGHTS[i].analysis][ANALYSIS_WEIGHTS[i].key]
    ELSE 0

\* 100 * the weight, and 100 * score * weight, of position i of the input
WeightTerm(t, i) == IF i \in PresentWeights(t) THEN WeightPercent[i] ELSE 0

ScoreTerm(t, i) ==
    IF i \in PresentWeights(t) THEN CountedScore(t, i) * WeightPercent[i] ELSE 0

PresentWeight100(t) ==
    WeightTerm(t, 1) + WeightTerm(t, 2) + WeightTerm(t, 3) + WeightTerm(t, 4)
    + WeightTerm(t, 5) + WeightTerm(t, 6) + WeightTerm(t, 7)

PresentSum100(t) ==
    ScoreTerm(t, 1) + ScoreTerm(t, 2) + ScoreTerm(t, 3) + ScoreTerm(t, 4)
    + ScoreTerm(t, 5) + ScoreTerm(t, 6) + ScoreTerm(t, 7)

\* |x * den - num| <= 2^-33
NearQuotient(x, num, den) ==
    LET a == MulSmall(x, den)
        b == <<0, 0, num * 8192>>
        d == IF FGe(a, b) THEN SubExact(a, b) ELSE SubExact(b, a)
    IN  Cmp(d, <<524288, 3, 0>>) <= 0

\* C27: with analyzer records absent, weighted_score is the weighted average
\* of the scores of the present records, renormalized by the sum of their
\* weights (as binary64 computes it, within 2^-33 / weight of the exact
\* quotient); a present record without its score field counts as 0; with no
\* record at all weighted_score is 0 and the Verdict is NON_AUTHENTIC.
C27_PartialInput ==
    \A t \in Threads :
        Decided(t) =>
            IF PresentWeight100(t) > 0
            THEN NearQuotient(dutch_decision[t].weighted_score,
                              PresentSum100(t), PresentWeight100(t))
            ELSE /\ dutch_decision[t].weighted_score = FZero
                 /\ dutch_decision[t].authenticity_result = "NON_AUTHENTIC"

\* two records present, one of them without its score: (0 * 35 + 100 * 20) / 55
C27_Witness ==
    \E t \in Threads :
        /\ Decided(t)
        /\ DOMAIN results[t] = {"ai_analysis", "metadata_analysis"}
        /\ "ai_score" \notin DOMAIN results[t].ai_analysis
        /\ results[t].metadata_analysis.metadata_score = 100
        /\ PresentWeight100(t) = 55
        /\ PresentSum100(t) = 2000
        /\ NearQuotient(dutch_decision[t].weighted_score, 2000, 55)

\* no record at all
C27_EmptyWitness ==
    \E t \in Threads :
        /\ Decided(t)
        /\ results[t] = EmptyDict
        /\ dutch_decision[t].weighted_score = FZero
        /\ dutch_decision[t].authenticity_result = "NON_AUTHENTIC"
        /\ dutch_decision[t].confidence_score = 100

\* C28: when /upload requests overlap, the ELA image a request answers with
\* is the difference between its own image and the re-encoding of that same
\* image: the re-encoded file one request wrote is never diffed against the
\* image of another.
C28_OwnReencoding ==
    \A t \in Threads :
        (upload_pc[t] = "done" /\ ela_response[t].status = 200) =>
            ela_response[t].body.reencoded = ela_response[t].body.original

\* a request that ran without another one in its way
C28_AloneWitness ==
    \E t \in Threads :
        /\ upload_pc[t] = "done" /\ ela_response[t].status = 200
        /\ ela_response[t].body.reencoded = ela_response[t].body.original
        /\ \A u \in Threads \ {t} : upload_pc[u] = "idle"

\* an overlapping request never fails on the file of the other
C28_NoMismatch ==
    \A t \in Threads : upload_pc[t] = "done" => ela_response[t].status = 200

\* C29: the entries of the audit trail are in non-decreasing order of their
\* timestamps, also when determine_authenticity calls overlap: the call that
\* takes its decision timestamp first is appended first.
C29_TimestampOrder ==
    \A i \in 1..Len(decision_log) - 1 :
        decision_log[i].timestamp <= decision_log[i + 1].timestamp

\* two entries in the order of their timestamps, the second taken later
C29_OrderedWitness ==
    /\ Len(decision_log) = 2
    /\ decision_log[1].timestamp < decision_log[2].timestamp

\* the input of thread t holds a value of the wrong type
Malformed(t) ==
    \/ \E a \in DOMAIN results[t] : results[t][a] = NotAMapping
    \/ \E i \in 1..Len(Get(Get(results[t], "metadata_analysis", EmptyDict),
                           "suspicious_indicators", <<>>)) :
           results[t].metadata_analysis.suspicious_indicators[i] = NotAString

\* C30: a determine_authenticity call that fails on malformed input (an
\* analyzer record that is no mapping, an indicator that is no string)
\* returns no Verdict and leaves the audit trail as it was; the audit trail
\* grows only by the one entry of a call that returns a complete Verdict, and
\* a call fails only on malformed input.
C30_FailureLeavesLog ==
    [][/\ \A t \in Threads :
              (pc[t] = "deciding" /\ pc'[t] = "done") =>
                  IF response'[t].status = 500
                  THEN /\ Malformed(t)
                       /\ dutch_decision'[t] = EmptyDict
                       /\ entry_index'[t] = 0
                       /\ decision_log' = decision_log
                  ELSE /\ CompleteVerdict(dutch_decision'[t])
                       /\ Len(decision_log') = Len(decision_log) + 1
                       /\ SubSeq(decision_log', 1, Len(decision_log)) = decision_log
       /\ decision_log' # decision_log =>
              \E t \in Threads : Returns(t) /\ CompleteVerdict(dutch_decision'[t])
      ]_vars

\* a call that failed in the weighted score, the last step that reads the
\* input, after an earlier call had left its entry
C30_Witness ==
    \E t \in Threads :
        /\ pc[t] = "done"
        /\ response[t].status = 500
        /\ Get(results[t], "histogram_analysis", EmptyDict) = NotAMapping
        /\ InputAIConfidence(t) = 60
        /\ dutch_decision[t] = EmptyDict
        /\ Len(decision_log) = 1

\* malformed input on which the call does not fail: any() stops at the
\* editing-software indicator before it reaches the number
C30_ShortCircuit ==
    \E t \in Threads :
        /\ Decided(t)
        /\ Malformed(t)
        /\ dutch_decision[t].critical_flags
               = <<"Professional editing software detected in metadata">>
====
